---- MODULE Spec2Model ----
(***************************************************************************)
(* Model of the idp package (smart-unicom/idp): the WeChat scan-login      *)
(* ticket cache, the provider factory, the adapters' token / user-info     *)
(* exchanges, and the Alipay request-signing helpers.                      *)
(***************************************************************************)
EXTENDS Integers, Sequences, FiniteSets, TLC

(***************************************************************************)
(* Bounds of the model.                                                    *)
(***************************************************************************)
NumReaders == 2

Readers == 1..NumReaders
TicketIds == {"abc123", "def456"}
SubjectIds == {"subjectX", "subjectY"}

VARIABLES
    WechatCacheMap,   \* wechat.go:26  ticket id -> WechatCacheMapValue
    Lock,             \* wechat.go:27  sync.RWMutex: readers holding RLock, writer holding Lock
    pc,               \* position of each concurrent GetUserInfo call
    accessToken,      \* wechat.go:195 token.AccessToken of each call
    mapValue,         \* wechat.go:199 value read by the lookup
    ok,               \* wechat.go:199 presence flag read by the lookup
    ret,              \* (userInfo, err) returned by the last finished call
    created,          \* history: ticket ids a login session was started for
    recorded,         \* history: subject id recorded by the scan confirmation
    successes,        \* history: calls that returned an identity since the last confirmation, per ticket
    lookedUp,         \* history: a lookup happened since the scan confirmation, per ticket
    isFirst,          \* history: the call made the first lookup after the scan confirmation
    startedAfter,     \* history: the call started after a successful return for its ticket
    idpInfo,          \* provider.go:28  the ProviderInfo handed to GetIdProvider
    idp,              \* provider.go:97  the adapter GetIdProvider returned (Client, Config)
    idpErr,           \* provider.go:97  the error GetIdProvider returned
    tokIn,            \* the code and the remote reply of the last GetToken
    tokOut,           \* (token, err) returned by the last GetToken
    usrIn,            \* the token and the remote replies of the last GetUserInfo
    usrOut,           \* (userInfo, err) returned by the last GetUserInfo
    wire,             \* the remote calls sent by the last operation, in order
    lastOp,           \* the operation that ran last
    lastClient,       \* argument of the last SetHttpClient call on idp, if any
    formData,         \* README.md:1169 the url.Values handed to getStringToSign
    stringToSign,     \* README.md:1184 the string getStringToSign returned
    keyText,          \* README.md:1226 the key text handed to formatPrivateKey
    pemText,          \* README.md:1249 the text formatPrivateKey returned
    helperOp,         \* the signing helper that ran
    dialCode,         \* part_001:342 the stateCode handed to getCountryCode
    phone,            \* part_001:342 the mobile handed to getCountryCode
    countryCode,      \* part_001:342 the string getCountryCode returned
    sharedSecret,     \* wechat.go:381 the token of the official account
    callback,         \* the last scan-confirmation callback received
    accepted          \* wechat.go:393 what VerifyWechatSignature returned for it

cacheVars == <<WechatCacheMap, Lock, pc, accessToken, mapValue, ok, ret,
               created, recorded, successes, lookedUp, isFirst, startedAfter>>

adapterVars == <<idpInfo, idp, idpErr, tokIn, tokOut, usrIn, usrOut, wire, lastOp,
                 lastClient>>

signVars == <<formData, stringToSign, keyText, pemText, helperOp>>

countryVars == <<dialCode, phone, countryCode>>

callbackVars == <<sharedSecret, callback, accepted>>

helperVars == <<signVars, countryVars, callbackVars>>

vars == <<cacheVars, adapterVars, helperVars>>

\* what the operations of the ticket cache leave alone
outsideCache == <<adapterVars, helperVars>>

-----------------------------------------------------------------------------
(***************************************************************************)
(* Scan-login ticket cache (wechat.go).                                    *)
(***************************************************************************)
NoWriter == 0

TicketPrefix == "wechat_oa:"

\* the strings that can follow the prefix in a token of the model
TokenBodies == TicketIds \cup {""}

\* "wechat_oa:"+t
TicketToken(t) == TicketPrefix \o t

\* strings.HasPrefix(s, "wechat_oa:")
HasTicketPrefix(s) == \E b \in TokenBodies : s = TicketPrefix \o b

\* s[10:] of a string that has the prefix
Drop10(s) == CHOOSE b \in TokenBodies : s = TicketPrefix \o b

\* zero value of WechatCacheMapValue
ZeroMapValue == [IsScanned |-> FALSE, WechatUnionId |-> ""]

WechatCacheMapValue == [IsScanned : BOOLEAN, WechatUnionId : SubjectIds \cup {""}]

NoUserInfo == [Id |-> "", Username |-> "", DisplayName |-> "", AvatarUrl |-> ""]

NoReturn == [err |-> "pending", userInfo |-> NoUserInfo]

ErrorTicket == [err |-> "error ticket", userInfo |-> NoUserInfo]

\* the identity without the "wx_user_" prefix
TicketUserInfo_Bare(v) ==
    [Id          |-> v.WechatUnionId,
     Username    |-> v.WechatUnionId,
     DisplayName |-> v.WechatUnionId,
     AvatarUrl   |-> ""]

TicketUserInfo(v) ==
    [Id          |-> v.WechatUnionId,
     Username    |-> "wx_user_" \o v.WechatUnionId,
     DisplayName |-> "wx_user_" \o v.WechatUnionId,
     AvatarUrl   |-> ""]

Returned(r) == pc[r] = "done"

Succeeded(r) == Returned(r) /\ ret[r].err = "nil"

Failed(r) == Returned(r) /\ ret[r].err = "error ticket"

MapDelete(m, k) == [x \in (DOMAIN m) \ {k} |-> m[x]]

MapStore(m, k, v) == [x \in (DOMAIN m) \cup {k} |-> IF x = k THEN v ELSE m[x]]

InitCache ==
    /\ WechatCacheMap = <<>>
    /\ Lock = [readers |-> {}, writer |-> NoWriter]
    /\ pc = [r \in Readers |-> "idle"]
    /\ accessToken = [r \in Readers |-> ""]
    /\ mapValue = [r \in Readers |-> ZeroMapValue]
    /\ ok = [r \in Readers |-> FALSE]
    /\ ret = [r \in Readers |-> NoReturn]
    /\ created = {}
    /\ recorded = [t \in TicketIds |-> ""]
    /\ successes = [t \in TicketIds |-> 0]
    /\ lookedUp = [t \in TicketIds |-> FALSE]
    /\ isFirst = [r \in Readers |-> FALSE]
    /\ startedAfter = [r \in Readers |-> FALSE]

\* A login session starts: the ticket is put in the cache, not yet scanned.
CreateTicket(t) ==
    /\ t \notin created
    /\ Lock.readers = {} /\ Lock.writer = NoWriter
    /\ WechatCacheMap' = MapStore(WechatCacheMap, t, ZeroMapValue)
    /\ created' = created \cup {t}
    /\ UNCHANGED <<Lock, pc, accessToken, mapValue, ok, ret,
                   recorded, successes, lookedUp, isFirst, startedAfter>>
    /\ UNCHANGED outsideCache

\* The scan-confirmation callback: sets scanned and records the subject id,
\* once per ticket, under the write lock.
MarkScanned(t, s) ==
    /\ t \in DOMAIN WechatCacheMap
    /\ ~WechatCacheMap[t].IsScanned
    /\ Lock.readers = {} /\ Lock.writer = NoWriter
    /\ WechatCacheMap' = MapStore(WechatCacheMap, t,
                                  [IsScanned |-> TRUE, WechatUnionId |-> s])
    /\ recorded' = [recorded EXCEPT ![t] = s]
    /\ lookedUp' = [lookedUp EXCEPT ![t] = FALSE]
    /\ successes' = [successes EXCEPT ![t] = 0]
    /\ UNCHANGED <<Lock, pc, accessToken, mapValue, ok, ret,
                   created, isFirst, startedAfter>>
    /\ UNCHANGED outsideCache

\* Any holder of the exported map and lock stores an arbitrary value
\* (wechat.go:25-28, 37-42: both fields are set independently).
StoreEntry(t, v) ==
    /\ Lock.readers = {} /\ Lock.writer = NoWriter
    /\ WechatCacheMap' = MapStore(WechatCacheMap, t, v)
    /\ successes' = [successes EXCEPT ![t] = 0]
    /\ UNCHANGED <<Lock, pc, accessToken, mapValue, ok, ret,
                   created, recorded, lookedUp, isFirst, startedAfter>>
    /\ UNCHANGED outsideCache

\* A caller invokes GetUserInfo with the token "wechat_oa:"+t.
GetUserInfoCall(r, t) ==
    /\ pc[r] \in {"idle", "done"}
    /\ accessToken' = [accessToken EXCEPT ![r] = TicketToken(t)]
    /\ pc' = [pc EXCEPT ![r] = "rlock"]
    /\ ret' = [ret EXCEPT ![r] = NoReturn]
    /\ mapValue' = [mapValue EXCEPT ![r] = ZeroMapValue]
    /\ ok' = [ok EXCEPT ![r] = FALSE]
    /\ isFirst' = [isFirst EXCEPT ![r] = FALSE]
    /\ startedAfter' = [startedAfter EXCEPT ![r] = successes[t] > 0]
    /\ UNCHANGED <<WechatCacheMap, Lock, created, recorded, successes, lookedUp>>
    /\ UNCHANGED outsideCache

\* wechat.go:197-199  the prefix test, Lock.RLock(), then
\* mapValue, ok := WechatCacheMap[accessToken[10:]]
RLock(r) ==
    LET t == Drop10(accessToken[r])
        present == t \in DOMAIN WechatCacheMap
    IN /\ pc[r] = "rlock"
       /\ HasTicketPrefix(accessToken[r])
       /\ Lock.writer = NoWriter
       /\ Lock' = [Lock EXCEPT !.readers = @ \cup {r}]
       /\ ok' = [ok EXCEPT ![r] = present]
       /\ mapValue' = [mapValue EXCEPT ![r] =
                          IF present THEN WechatCacheMap[t] ELSE ZeroMapValue]
       /\ isFirst' = [isFirst EXCEPT ![r] = recorded[t] # "" /\ ~lookedUp[t]]
       /\ lookedUp' = [lookedUp EXCEPT ![t] = @ \/ recorded[t] # ""]
       /\ pc' = [pc EXCEPT ![r] = "runlock"]
       /\ UNCHANGED <<WechatCacheMap, accessToken, ret,
                      created, recorded, successes, startedAfter>>
       /\ UNCHANGED outsideCache

\* wechat.go:202  the test that decides between "error ticket" and consumption
TicketRejected(present, v) == ~present \/ v.WechatUnionId = ""

\* the read lock is kept when the call returns "error ticket"
RUnlock_KeepOnError(r) ==
    /\ pc[r] = "runlock"
    /\ r \in Lock.readers
    /\ IF TicketRejected(ok[r], mapValue[r])
          THEN /\ ret' = [ret EXCEPT ![r] = ErrorTicket]
               /\ pc' = [pc EXCEPT ![r] = "done"]
               /\ Lock' = Lock
          ELSE /\ ret' = ret
               /\ pc' = [pc EXCEPT ![r] = "lock"]
               /\ Lock' = [Lock EXCEPT !.readers = @ \ {r}]
    /\ UNCHANGED <<WechatCacheMap, accessToken, mapValue, ok,
                   created, recorded, successes, lookedUp, isFirst, startedAfter>>
    /\ UNCHANGED outsideCache

\* a rejected ticket is dropped from the map
RUnlock_DropOnError(r) ==
    /\ pc[r] = "runlock"
    /\ r \in Lock.readers
    /\ Lock' = [Lock EXCEPT !.readers = @ \ {r}]
    /\ IF TicketRejected(ok[r], mapValue[r])
          THEN /\ ret' = [ret EXCEPT ![r] = ErrorTicket]
               /\ pc' = [pc EXCEPT ![r] = "done"]
               /\ WechatCacheMap' = MapDelete(WechatCacheMap, Drop10(accessToken[r]))
          ELSE /\ ret' = ret
               /\ pc' = [pc EXCEPT ![r] = "lock"]
               /\ WechatCacheMap' = WechatCacheMap
    /\ UNCHANGED <<accessToken, mapValue, ok,
                   created, recorded, successes, lookedUp, isFirst, startedAfter>>
    /\ UNCHANGED outsideCache

\* wechat.go:200-204  Lock.RUnlock(), then the test and the error return
RUnlock(r) ==
    /\ pc[r] = "runlock"
    /\ r \in Lock.readers
    /\ Lock' = [Lock EXCEPT !.readers = @ \ {r}]
    /\ IF TicketRejected(ok[r], mapValue[r])
          THEN /\ ret' = [ret EXCEPT ![r] = ErrorTicket]
               /\ pc' = [pc EXCEPT ![r] = "done"]
          ELSE /\ ret' = ret
               /\ pc' = [pc EXCEPT ![r] = "lock"]
    /\ UNCHANGED <<WechatCacheMap, accessToken, mapValue, ok,
                   created, recorded, successes, lookedUp, isFirst, startedAfter>>
    /\ UNCHANGED outsideCache

\* the write lock is taken but the entry is left in the map
LockDelete_NoDelete(r) ==
    /\ pc[r] = "lock"
    /\ Lock.readers = {} /\ Lock.writer = NoWriter
    /\ Lock' = [Lock EXCEPT !.writer = r]
    /\ pc' = [pc EXCEPT ![r] = "unlock"]
    /\ UNCHANGED <<WechatCacheMap, accessToken, mapValue, ok, ret,
                   created, recorded, successes, lookedUp, isFirst, startedAfter>>
    /\ UNCHANGED outsideCache

\* wechat.go:206-207  Lock.Lock(), then delete(WechatCacheMap, accessToken[10:])
LockDelete(r) ==
    /\ pc[r] = "lock"
    /\ Lock.readers = {} /\ Lock.writer = NoWriter
    /\ Lock' = [Lock EXCEPT !.writer = r]
    /\ WechatCacheMap' = MapDelete(WechatCacheMap, Drop10(accessToken[r]))
    /\ pc' = [pc EXCEPT ![r] = "unlock"]
    /\ UNCHANGED <<accessToken, mapValue, ok, ret,
                   created, recorded, successes, lookedUp, isFirst, startedAfter>>
    /\ UNCHANGED outsideCache

\* wechat.go:208-216  Lock.Unlock(), then the identity is built and returned
Unlock(r) ==
    /\ pc[r] = "unlock"
    /\ Lock.writer = r
    /\ Lock' = [Lock EXCEPT !.writer = NoWriter]
    /\ ret' = [ret EXCEPT ![r] = [err |-> "nil", userInfo |-> TicketUserInfo(mapValue[r])]]
    /\ successes' = [successes EXCEPT ![Drop10(accessToken[r])] = @ + 1]
    /\ pc' = [pc EXCEPT ![r] = "done"]
    /\ UNCHANGED <<WechatCacheMap, accessToken, mapValue, ok,
                   created, recorded, lookedUp, isFirst, startedAfter>>
    /\ UNCHANGED outsideCache

GetUserInfoStep(r) ==
    \/ RLock(r)
    \/ RUnlock(r)
    \/ LockDelete(r)
    \/ Unlock(r)

-----------------------------------------------------------------------------
(***************************************************************************)
(* Provider factory (provider.go).                                         *)
(***************************************************************************)
IDP_WECHAT == "WeChat"
IDP_QQ == "QQ"
IDP_BAIDU == "Baidu"
IDP_ALIPAY == "Alipay"
IDP_BILIBILI == "Bilibili"
IDP_DOUYIN == "Douyin"
IDP_DING_TALK == "DingTalk"
IDP_WEIBO == "Weibo"
IDP_WECOM == "WeCom"
IDP_WECOM_INTERNAL == "WeComInternal"
IDP_GITHUB == "GitHub"
IDP_GITEE == "Gitee"
IDP_GITLAB == "GitLab"

DeclaredKinds ==
    {IDP_WECHAT, IDP_QQ, IDP_BAIDU, IDP_ALIPAY, IDP_BILIBILI, IDP_DOUYIN,
     IDP_DING_TALK, IDP_WEIBO, IDP_WECOM, IDP_WECOM_INTERNAL,
     IDP_GITHUB, IDP_GITEE, IDP_GITLAB}

\* Type strings no case of the factory's switch names
OtherTypes == {"", "github", "WECHAT", "wecom", "WeChatMiniProgram", "Google"}

\* classes of private-key text an Alipay ClientSecret can hold
PrivateKeys == {"rsa-pkcs8", "not-base64", "not-pkcs8", "ec-pkcs8"}

\* the ClientSecret is a private key for Alipay, an app secret elsewhere
SecretsOf(ty) == IF ty = IDP_ALIPAY THEN PrivateKeys ELSE {"secret"}

ProviderInfos ==
    UNION {{[Type |-> ty, ClientId |-> "app", ClientSecret |-> k] : k \in SecretsOf(ty)} :
              ty \in DeclaredKinds \cup OtherTypes}

NilClient == "nil"

Clients == {"client1", "client2"}

\* the unset adapter (a nil IdProvider)
NoProvider ==
    [kind |-> "nil", Client |-> NilClient,
     Config |-> [ClientID |-> "", ClientSecret |-> "", Scopes0 |-> ""]]

\* the adapter is built with a client of its own
NewProvider_OwnClient(kind, scopes0, clientId, clientSecret) ==
    [kind |-> kind, Client |-> "client1",
     Config |-> [ClientID |-> clientId, ClientSecret |-> clientSecret,
                 Scopes0 |-> scopes0]]

\* &XxxIdProvider{Config: getConfig(...)}: Client is left unset
NewProvider(kind, scopes0, clientId, clientSecret) ==
    [kind |-> kind, Client |-> NilClient,
     Config |-> [ClientID |-> clientId, ClientSecret |-> clientSecret,
                 Scopes0 |-> scopes0]]

NewGithubIdProvider(clientId, clientSecret) ==
    NewProvider("GitHub", "user:email", clientId, clientSecret)

NewQqIdProvider(clientId, clientSecret) ==
    NewProvider("QQ", "get_user_info", clientId, clientSecret)

NewWeChatIdProvider(clientId, clientSecret) ==
    NewProvider("WeChat", "snsapi_login", clientId, clientSecret)

NewDingTalkIdProvider(clientId, clientSecret) ==
    NewProvider("DingTalk", "", clientId, clientSecret)

NewWeiBoIdProvider(clientId, clientSecret) ==
    NewProvider("Weibo", "", clientId, clientSecret)

NewGiteeIdProvider(clientId, clientSecret) ==
    NewProvider("Gitee", "user_info emails", clientId, clientSecret)

NewGitlabIdProvider(clientId, clientSecret) ==
    NewProvider("GitLab", "read_user+profile", clientId, clientSecret)

NewBaiduIdProvider(clientId, clientSecret) ==
    NewProvider("Baidu", "email", clientId, clientSecret)

NewAlipayIdProvider(clientId, clientSecret) ==
    NewProvider("Alipay", "", clientId, clientSecret)

NewDouyinIdProvider(clientId, clientSecret) ==
    NewProvider("Douyin", "user_info", clientId, clientSecret)

NewBilibiliIdProvider(clientId, clientSecret) ==
    NewProvider("Bilibili", "", clientId, clientSecret)

NewWeComIdProvider(clientId, clientSecret) ==
    NewProvider("WeCom", "snsapi_login", clientId, clientSecret)

NewWeComInternalIdProvider(clientId, clientSecret) ==
    NewProvider("WeComInternal", "", clientId, clientSecret)

Created(p) == [idp |-> p, err |-> ""]

\* the switch drops the "WeComInternal" case
GetIdProvider_NoWeComInternal(info) ==
    LET id == info.ClientId
        sec == info.ClientSecret
    IN CASE info.Type = "GitHub" -> Created(NewGithubIdProvider(id, sec))
         [] info.Type = "QQ" -> Created(NewQqIdProvider(id, sec))
         [] info.Type = "WeChat" -> Created(NewWeChatIdProvider(id, sec))
         [] info.Type = "DingTalk" -> Created(NewDingTalkIdProvider(id, sec))
         [] info.Type = "Weibo" -> Created(NewWeiBoIdProvider(id, sec))
         [] info.Type = "Gitee" -> Created(NewGiteeIdProvider(id, sec))
         [] info.Type = "GitLab" -> Created(NewGitlabIdProvider(id, sec))
         [] info.Type = "Baidu" -> Created(NewBaiduIdProvider(id, sec))
         [] info.Type = "Alipay" -> Created(NewAlipayIdProvider(id, sec))
         [] info.Type = "Douyin" -> Created(NewDouyinIdProvider(id, sec))
         [] info.Type = "Bilibili" -> Created(NewBilibiliIdProvider(id, sec))
         [] info.Type = "WeCom" -> Created(NewWeComIdProvider(id, sec))
         [] OTHER -> [idp |-> NoProvider, err |-> "unsupported type: " \o info.Type]

\* provider.go:97-128
GetIdProvider(info) ==
    LET id == info.ClientId
        sec == info.ClientSecret
    IN CASE info.Type = "GitHub" -> Created(NewGithubIdProvider(id, sec))
         [] info.Type = "QQ" -> Created(NewQqIdProvider(id, sec))
         [] info.Type = "WeChat" -> Created(NewWeChatIdProvider(id, sec))
         [] info.Type = "DingTalk" -> Created(NewDingTalkIdProvider(id, sec))
         [] info.Type = "Weibo" -> Created(NewWeiBoIdProvider(id, sec))
         [] info.Type = "Gitee" -> Created(NewGiteeIdProvider(id, sec))
         [] info.Type = "GitLab" -> Created(NewGitlabIdProvider(id, sec))
         [] info.Type = "Baidu" -> Created(NewBaiduIdProvider(id, sec))
         [] info.Type = "Alipay" -> Created(NewAlipayIdProvider(id, sec))
         [] info.Type = "Douyin" -> Created(NewDouyinIdProvider(id, sec))
         [] info.Type = "Bilibili" -> Created(NewBilibiliIdProvider(id, sec))
         [] info.Type = "WeCom" -> Created(NewWeComIdProvider(id, sec))
         [] info.Type = "WeComInternal" -> Created(NewWeComInternalIdProvider(id, sec))
         [] OTHER -> [idp |-> NoProvider, err |-> "unsupported type: " \o info.Type]

-----------------------------------------------------------------------------
(***************************************************************************)
(* Remote replies and results of the adapters.                             *)
(***************************************************************************)

\* A reply of a remote endpoint: net is the transport outcome; shape tells
\* whether the body (HTTP 200) is the provider's success document ("data"),
\* its domain-error document ("error") or undecodable ("garbage"); the other
\* fields are the values the body carries ("" / 0: absent).
EmptyObject ==
    [net |-> "ok", shape |-> "data", errcode |-> 0, errmsg |-> "",
     access_token |-> "", refresh_token |-> "", token_type |-> "", uid |-> "",
     openid |-> "", unionid |-> "", userid |-> "", name |-> "", num |-> 0,
     email |-> "", mobile |-> "", job |-> "", stateCode |-> "", avatar |-> ""]

NetFail == [EmptyObject EXCEPT !.net = "fail", !.shape = "none"]

Garbage == [EmptyObject EXCEPT !.shape = "garbage"]

\* {"errcode":40163,"errmsg":"code been used"} in the provider's own field names
DomainError ==
    [EmptyObject EXCEPT !.shape = "error", !.errcode = 40163,
                        !.errmsg = "code been used"]

TokenGranted ==
    [EmptyObject EXCEPT !.errmsg = "ok", !.access_token = "AT",
                        !.refresh_token = "RT", !.token_type = "bearer",
                        !.uid = "7", !.openid = "openid1"]

\* the grant to a second user
TokenGrantedB ==
    [TokenGranted EXCEPT !.access_token = "AT2", !.uid = "8", !.openid = "openid2"]

Profile ==
    [EmptyObject EXCEPT !.errmsg = "ok", !.openid = "openid1", !.name = "nick",
                        !.num = 7, !.email = "pub@example.com", !.mobile = "150",
                        !.stateCode = "86", !.avatar = "https://a/1.png"]

ProfileUnion == [Profile EXCEPT !.unionid = "union1"]

\* an enterprise-directory record: a user id, no open id
Member ==
    [EmptyObject EXCEPT !.errmsg = "ok", !.userid = "zhangsan", !.name = "Zhang San",
                        !.email = "corp@example.com", !.mobile = "138",
                        !.job = "J007"]

\* a directory record that holds no contact data
MemberBare == [Member EXCEPT !.email = "", !.mobile = "", !.job = ""]

TokenReplies == {NetFail, Garbage, DomainError, EmptyObject, TokenGranted, TokenGrantedB}

UserReplies == {NetFail, Garbage, DomainError, EmptyObject, Profile, ProfileUnion, Member}

Codes == {"code1", TicketToken("abc123")}

NoExtra == [key |-> "", val |-> ""]

Token(at, tt, rt, extra) ==
    [AccessToken |-> at, TokenType |-> tt, RefreshToken |-> rt, Extra |-> extra]

NoToken == Token("", "", "", NoExtra)

NoErr == [cause |-> "", code |-> 0, msg |-> ""]

Err(cause, code, msg) == [cause |-> cause, code |-> code, msg |-> msg]

\* one request sent through a client
Call(via, url, arg) == [via |-> via, url |-> url, arg |-> arg]

\* results of GetToken: the adapter after the call, the calls sent, and
\* (token, err), or a run-time panic
TokOk(a, w, tok) == [status |-> "ok", err |-> NoErr, token |-> tok, wire |-> w, idp |-> a]

TokFail(a, w, e) == [status |-> "err", err |-> e, token |-> NoToken, wire |-> w, idp |-> a]

TokPanic(a, w) == [status |-> "panic", err |-> NoErr, token |-> NoToken, wire |-> w, idp |-> a]

NoTokOut == [status |-> "none", err |-> NoErr, token |-> NoToken]

Digits == <<"0", "1", "2", "3", "4", "5", "6", "7", "8", "9">>

RECURSIVE Itoa(_)
\* strconv.Itoa for n >= 0
Itoa(n) == IF n < 10 THEN Digits[n + 1] ELSE Itoa(n \div 10) \o Digits[(n % 10) + 1]

\* %s of token.Extra(key): the stored value, or the formatted nil
ExtraOf(tok, key) == IF tok.Extra.key = key THEN tok.Extra.val ELSE "%!s(<nil>)"

\* token.Extra(key).(string) succeeds only when the value is there
HasExtra(tok, key) == tok.Extra.key = key

\* classes of private key (README.md:1195-1217): what pem.Decode,
\* x509.ParsePKCS8PrivateKey and the *rsa.PrivateKey assertion make of it
rsaSignWithRSA256(signContent, privateKey) ==
    CASE privateKey = "rsa-pkcs8" -> [status |-> "ok", sign |-> <<"sig", signContent>>]
      [] privateKey = "not-pkcs8" -> [status |-> "err", sign |-> <<>>]
      [] OTHER -> [status |-> "panic", sign |-> <<>>]

\* zero value of UserInfo (provider.go:13-24); Extra is a set of key/value pairs
ZeroUserInfo ==
    [Id |-> "", Username |-> "", DisplayName |-> "", UnionId |-> "", Email |-> "",
     Phone |-> "", CountryCode |-> "", AvatarUrl |-> "", Extra |-> {}]

\* results of GetUserInfo: the calls sent, the ticket cache after the call,
\* and (userInfo, err), or a run-time panic
UsrOk(w, u, cache) ==
    [status |-> "ok", err |-> NoErr, userInfo |-> u, wire |-> w, cache |-> cache]

UsrFail(w, e, cache) ==
    [status |-> "err", err |-> e, userInfo |-> ZeroUserInfo, wire |-> w, cache |-> cache]

UsrPanic(w, cache) ==
    [status |-> "panic", err |-> NoErr, userInfo |-> ZeroUserInfo, wire |-> w, cache |-> cache]

NoUsrOut == [status |-> "none", err |-> NoErr, userInfo |-> ZeroUserInfo]

-----------------------------------------------------------------------------
(***************************************************************************)
(* WeChat adapter (wechat.go).                                             *)
(***************************************************************************)
\* every artifact is exchanged at the token endpoint, a ticket token included
WeChatGetToken_NoTicket(a, code, reply) ==
    IF a.Client = NilClient THEN TokPanic(a, <<>>)
    ELSE LET w == <<Call(a.Client, "api.weixin.qq.com/sns/oauth2/access_token", code)>>
         IN IF reply.net = "fail" THEN TokFail(a, w, Err("transport", 0, ""))
            ELSE IF reply.shape = "error"
                 THEN TokFail(a, w, Err("remote", reply.errcode, reply.errmsg))
            ELSE IF reply.shape = "garbage" THEN TokFail(a, w, Err("decode", 0, ""))
            ELSE TokOk(a, w, Token(reply.access_token, "WeChatAccessToken",
                                   reply.refresh_token, NoExtra))

\* wechat.go:111-168
WeChatGetToken(a, code, reply) ==
    IF HasTicketPrefix(code)
    THEN TokOk(a, <<>>, Token(code, "WeChatAccessToken", "", NoExtra))
    ELSE IF a.Client = NilClient THEN TokPanic(a, <<>>)
    ELSE LET w == <<Call(a.Client, "api.weixin.qq.com/sns/oauth2/access_token", code)>>
         IN IF reply.net = "fail" THEN TokFail(a, w, Err("transport", 0, ""))
            ELSE IF reply.shape = "error"
                 THEN TokFail(a, w, Err("remote", reply.errcode, reply.errmsg))
            ELSE IF reply.shape = "garbage" THEN TokFail(a, w, Err("decode", 0, ""))
            \* token.WithExtra(raw) returns a copy that is dropped: no Extra
            ELSE TokOk(a, w, Token(reply.access_token, "WeChatAccessToken",
                                   reply.refresh_token, NoExtra))

\* fmt.Sprintf("wechat_openid_%s", appId)
BuildWechatOpenIdKey(appId) == "wechat_openid_" \o appId

\* wechat.go:193-260, run without interleaving: rs[1] is the reply of sns/userinfo
WeChatGetUserInfo(a, tok, rs, cache) ==
    IF HasTicketPrefix(tok.AccessToken)
    THEN LET t == Drop10(tok.AccessToken)
             present == t \in DOMAIN cache
             v == IF present THEN cache[t] ELSE ZeroMapValue
             u == TicketUserInfo(v)
         IN IF TicketRejected(present, v)
            THEN UsrFail(<<>>, Err("error ticket", 0, ""), cache)
            ELSE UsrOk(<<>>, [ZeroUserInfo EXCEPT !.Id = u.Id, !.Username = u.Username,
                                                  !.DisplayName = u.DisplayName,
                                                  !.AvatarUrl = u.AvatarUrl],
                       MapDelete(cache, t))
    ELSE IF a.Client = NilClient THEN UsrPanic(<<>>, cache)
    ELSE LET w == <<Call(a.Client, "api.weixin.qq.com/sns/userinfo", ExtraOf(tok, "Openid"))>>
             r == rs[1]
             id == IF r.unionid = "" THEN r.openid ELSE r.unionid
         IN IF r.net = "fail" THEN UsrFail(w, Err("transport", 0, ""), cache)
            ELSE IF r.shape = "garbage" THEN UsrFail(w, Err("decode", 0, ""), cache)
            \* an {"errcode":..} body decodes into an empty WechatUserInfo
            ELSE UsrOk(w, [ZeroUserInfo EXCEPT
                             !.Id = id, !.Username = r.name, !.DisplayName = r.name,
                             !.AvatarUrl = r.avatar,
                             !.Extra = {<<"wechat_unionid", r.openid>>,
                                        <<BuildWechatOpenIdKey(a.Config.ClientID), r.openid>>}],
                       cache)

-----------------------------------------------------------------------------
(***************************************************************************)
(* Douyin adapter.                                                         *)
(***************************************************************************)
\* unnamed/part_000:104-135: the reply is decoded and used whatever it says
DouyinGetToken(a, code, reply) ==
    IF a.Client = NilClient THEN TokPanic(a, <<>>)
    ELSE LET w == <<Call(a.Client, "open.douyin.com/oauth/access_token", code)>>
         IN IF reply.net = "fail" THEN TokFail(a, w, Err("transport", 0, ""))
            ELSE IF reply.shape = "garbage" THEN TokFail(a, w, Err("decode", 0, ""))
            ELSE TokOk(a, w, Token(reply.access_token, "", reply.refresh_token,
                                   [key |-> "open_id", val |-> reply.openid]))

\* unnamed/part_000:176-217
DouyinGetUserInfo(a, tok, rs, cache) ==
    IF ~HasExtra(tok, "open_id") THEN UsrPanic(<<>>, cache)
    ELSE IF a.Client = NilClient THEN UsrPanic(<<>>, cache)
    ELSE LET w == <<Call(a.Client, "open.douyin.com/oauth/userinfo", tok.Extra.val)>>
             r == rs[1]
         IN IF r.net = "fail" THEN UsrFail(w, Err("transport", 0, ""), cache)
            ELSE IF r.shape = "garbage" THEN UsrFail(w, Err("decode", 0, ""), cache)
            ELSE UsrOk(w, [ZeroUserInfo EXCEPT !.Id = r.openid, !.Username = r.name,
                                               !.DisplayName = r.name,
                                               !.AvatarUrl = r.avatar],
                       cache)

-----------------------------------------------------------------------------
(***************************************************************************)
(* WeCom third-party adapter.                                              *)
(***************************************************************************)
\* unnamed/part_000:302-330: the code is not sent, it is kept in the token
WeComGetToken(a, code, reply) ==
    IF a.Client = NilClient THEN TokPanic(a, <<>>)
    ELSE LET w == <<Call(a.Client, "qyapi.weixin.qq.com/cgi-bin/service/get_provider_token",
                         a.Config.ClientID)>>
         IN IF reply.net = "fail" THEN TokFail(a, w, Err("transport", 0, ""))
            ELSE IF reply.shape = "garbage" THEN TokFail(a, w, Err("decode", 0, ""))
            ELSE IF reply.errcode # 0
                 THEN TokFail(a, w, Err("remote", reply.errcode, reply.errmsg))
            ELSE TokOk(a, w, Token(reply.access_token, "", "",
                                   [key |-> "code", val |-> code]))

\* unnamed/part_000:359-387
WeComGetUserInfo(a, tok, rs, cache) ==
    IF ~HasExtra(tok, "code") THEN UsrPanic(<<>>, cache)
    ELSE IF a.Client = NilClient THEN UsrPanic(<<>>, cache)
    ELSE LET w == <<Call(a.Client, "qyapi.weixin.qq.com/cgi-bin/service/get_login_info",
                         tok.Extra.val)>>
             r == rs[1]
         IN IF r.net = "fail" THEN UsrFail(w, Err("transport", 0, ""), cache)
            ELSE IF r.shape = "garbage" THEN UsrFail(w, Err("decode", 0, ""), cache)
            ELSE IF r.errcode # 0
                 THEN UsrFail(w, Err("remote", r.errcode, r.errmsg), cache)
            ELSE UsrOk(w, [ZeroUserInfo EXCEPT !.Id = r.openid, !.Username = r.name,
                                               !.DisplayName = r.name,
                                               !.AvatarUrl = r.avatar],
                       cache)

-----------------------------------------------------------------------------
(***************************************************************************)
(* DingTalk adapter.                                                       *)
(***************************************************************************)
\* unnamed/part_001:89-117
DingTalkGetToken(a, code, reply) ==
    IF a.Client = NilClient THEN TokPanic(a, <<>>)
    ELSE LET w == <<Call(a.Client, "api.dingtalk.com/v1.0/oauth2/userAccessToken", code)>>
         IN IF reply.net = "fail" THEN TokFail(a, w, Err("transport", 0, ""))
            ELSE IF reply.shape = "garbage" THEN TokFail(a, w, Err("decode", 0, ""))
            ELSE IF reply.errcode # 0
                 THEN TokFail(a, w, Err("remote", reply.errcode, reply.errmsg))
            ELSE TokOk(a, w, Token(reply.access_token, "", "", NoExtra))

\* unnamed/part_001:344-457  the entries of the calling-code table
countryCodeEntries ==
    {
      <<"86", "CN">>, <<"1", "US">>, <<"44", "GB">>, <<"81", "JP">>, <<"82", "KR">>,
      <<"91", "IN">>, <<"33", "FR">>, <<"49", "DE">>, <<"39", "IT">>, <<"7", "RU">>,
      <<"61", "AU">>, <<"55", "BR">>, <<"52", "MX">>, <<"34", "ES">>, <<"31", "NL">>,
      <<"46", "SE">>, <<"47", "NO">>, <<"45", "DK">>, <<"358", "FI">>, <<"41", "CH">>,
      <<"43", "AT">>, <<"32", "BE">>, <<"351", "PT">>, <<"30", "GR">>, <<"48", "PL">>,
      <<"420", "CZ">>, <<"36", "HU">>, <<"40", "RO">>, <<"359", "BG">>, <<"385", "HR">>,
      <<"386", "SI">>, <<"421", "SK">>, <<"372", "EE">>, <<"371", "LV">>, <<"370", "LT">>,
      <<"353", "IE">>, <<"354", "IS">>, <<"352", "LU">>, <<"377", "MC">>, <<"378", "SM">>,
      <<"39066", "VA">>, <<"376", "AD">>, <<"350", "GI">>, <<"356", "MT">>, <<"357", "CY">>,
      <<"90", "TR">>, <<"972", "IL">>, <<"971", "AE">>, <<"966", "SA">>, <<"965", "KW">>,
      <<"974", "QA">>, <<"973", "BH">>, <<"968", "OM">>, <<"962", "JO">>, <<"961", "LB">>,
      <<"963", "SY">>, <<"964", "IQ">>, <<"98", "IR">>, <<"93", "AF">>, <<"92", "PK">>,
      <<"880", "BD">>, <<"94", "LK">>, <<"95", "MM">>, <<"66", "TH">>, <<"84", "VN">>,
      <<"855", "KH">>, <<"856", "LA">>, <<"60", "MY">>, <<"65", "SG">>, <<"62", "ID">>,
      <<"63", "PH">>, <<"673", "BN">>, <<"670", "TL">>, <<"852", "HK">>, <<"853", "MO">>,
      <<"886", "TW">>, <<"20", "EG">>, <<"27", "ZA">>, <<"234", "NG">>, <<"254", "KE">>,
      <<"233", "GH">>, <<"212", "MA">>, <<"213", "DZ">>, <<"216", "TN">>, <<"218", "LY">>,
      <<"249", "SD">>, <<"251", "ET">>, <<"256", "UG">>, <<"255", "TZ">>, <<"250", "RW">>,
      <<"257", "BI">>, <<"243", "CD">>, <<"242", "CG">>, <<"236", "CF">>, <<"235", "TD">>,
      <<"237", "CM">>, <<"240", "GQ">>, <<"241", "GA">>, <<"239", "ST">>, <<"238", "CV">>,
      <<"245", "GW">>, <<"224", "GN">>, <<"221", "SN">>, <<"223", "ML">>, <<"226", "BF">>,
      <<"227", "NE">>, <<"229", "BJ">>, <<"228", "TG">>, <<"225", "CI">>, <<"231", "LR">>,
      <<"232", "SL">>, <<"220", "GM">>
    }

\* unnamed/part_001:344-457  countryCodeMap := map[string]string{...}
countryCodeMap ==
    [c \in {e[1] : e \in countryCodeEntries} |->
        (CHOOSE e \in countryCodeEntries : e[1] = c)[2]]

\* getCountryCode without its default: an unlisted code yields the zero string
getCountryCode_NoDefault(stateCode, mobile) ==
    IF stateCode \in DOMAIN countryCodeMap THEN countryCodeMap[stateCode] ELSE ""

\* unnamed/part_001:342-466
getCountryCode(stateCode, mobile) ==
    IF stateCode \in DOMAIN countryCodeMap THEN countryCodeMap[stateCode] ELSE "CN"

\* unnamed/part_001:246-264: every failure is logged and "" is returned
getInnerAppAccessToken(r) ==
    IF r.net = "fail" \/ r.shape = "garbage" THEN "" ELSE r.access_token

\* unnamed/part_001:273-298
getUserId(r) ==
    IF r.net = "fail" THEN [userId |-> "", err |-> Err("transport", 0, "")]
    ELSE IF r.shape = "garbage" THEN [userId |-> "", err |-> Err("decode", 0, "")]
    ELSE IF r.errcode = 60121 THEN [userId |-> "", err |-> Err("remote", r.errcode, "not a member")]
    ELSE IF r.errcode # 0 THEN [userId |-> "", err |-> Err("remote", r.errcode, r.errmsg)]
    ELSE [userId |-> r.userid, err |-> NoErr]

\* unnamed/part_001:309-334
getUserCorpEmail(r) ==
    LET none(e) == [mobile |-> "", email |-> "", job |-> "", err |-> e]
    IN IF r.net = "fail" THEN none(Err("transport", 0, ""))
       ELSE IF r.shape = "garbage" THEN none(Err("decode", 0, ""))
       ELSE IF r.errmsg # "ok" THEN none(Err("remote", r.errcode, r.errmsg))
       ELSE [mobile |-> r.mobile, email |-> r.email, job |-> r.job, err |-> NoErr]

\* the directory values replace the public ones even when they are empty
MergeCorp_Overwrite(userInfo, corp) ==
    [userInfo EXCEPT !.Phone = corp.mobile, !.Email = corp.email, !.Username = corp.job]

\* unnamed/part_001:194-207: a non-empty corpMobile, corpEmail and jobNumber
\* replace Phone, Email and Username
MergeCorp(userInfo, corp) ==
    [userInfo EXCEPT !.Phone = IF corp.mobile # "" THEN corp.mobile ELSE @,
                     !.Email = IF corp.email # "" THEN corp.email ELSE @,
                     !.Username = IF corp.job # "" THEN corp.job ELSE @]

\* unnamed/part_001:150-210: rs[1] is the reply of users/me, rs[2] of the
\* inner-app token call, rs[3] of getbyunionid, rs[4] of v2/user/get
DingTalkGetUserInfo(a, tok, rs, cache) ==
    IF a.Client = NilClient THEN UsrPanic(<<>>, cache)
    ELSE LET c == a.Client
             r == rs[1]
             userInfo == [ZeroUserInfo EXCEPT
                            !.Id = r.openid, !.Username = r.name, !.DisplayName = r.name,
                            !.UnionId = r.unionid, !.Email = r.email, !.Phone = r.mobile,
                            !.CountryCode = getCountryCode(r.stateCode, r.mobile),
                            !.AvatarUrl = r.avatar]
             corpAccessToken == getInnerAppAccessToken(rs[2])
             uid == getUserId(rs[3])
             corp == getUserCorpEmail(rs[4])
             w1 == <<Call(c, "api.dingtalk.com/v1.0/contact/users/me", tok.AccessToken)>>
             w3 == w1 \o <<Call(c, "api.dingtalk.com/v1.0/oauth2/accessToken", a.Config.ClientID),
                           Call(c, "oapi.dingtalk.com/topapi/user/getbyunionid", userInfo.UnionId)>>
             w4 == w3 \o <<Call(c, "oapi.dingtalk.com/topapi/v2/user/get", uid.userId)>>
         IN IF r.net = "fail" THEN UsrFail(w1, Err("transport", 0, ""), cache)
            ELSE IF r.shape = "garbage" THEN UsrFail(w1, Err("decode", 0, ""), cache)
            ELSE IF uid.err # NoErr THEN UsrFail(w3, uid.err, cache)
            ELSE IF corp.err # NoErr THEN UsrOk(w4, userInfo, cache)
            ELSE UsrOk(w4, MergeCorp(userInfo, corp), cache)

-----------------------------------------------------------------------------
(***************************************************************************)
(* WeCom internal-app adapter (wecom_internal.go).                         *)
(***************************************************************************)
\* wecom_internal.go:77-110
WeComInternalGetToken(a, code, reply) ==
    IF a.Client = NilClient THEN TokPanic(a, <<>>)
    ELSE LET w == <<Call(a.Client, "qyapi.weixin.qq.com/cgi-bin/gettoken", a.Config.ClientID)>>
         IN IF reply.net = "fail" THEN TokFail(a, w, Err("transport", 0, ""))
            ELSE IF reply.shape = "garbage" THEN TokFail(a, w, Err("decode", 0, ""))
            ELSE IF reply.errcode # 0
                 THEN TokFail(a, w, Err("remote", reply.errcode, reply.errmsg))
            ELSE TokOk(a, w, Token(reply.access_token, "", "",
                                   [key |-> "code", val |-> code]))

\* wecom_internal.go:137-192: rs[1] is the reply of user/getuserinfo, rs[2] of user/get
WeComInternalGetUserInfo(a, tok, rs, cache) ==
    IF ~HasExtra(tok, "code") THEN UsrPanic(<<>>, cache)
    ELSE IF a.Client = NilClient THEN UsrPanic(<<>>, cache)
    ELSE LET c == a.Client
             userResp == rs[1]
             infoResp == rs[2]
             w1 == <<Call(c, "qyapi.weixin.qq.com/cgi-bin/user/getuserinfo", tok.Extra.val)>>
             w2 == w1 \o <<Call(c, "qyapi.weixin.qq.com/cgi-bin/user/get", userResp.userid)>>
         IN IF userResp.net = "fail" THEN UsrFail(w1, Err("transport", 0, ""), cache)
            ELSE IF userResp.shape = "garbage" THEN UsrFail(w1, Err("decode", 0, ""), cache)
            ELSE IF userResp.errcode # 0
                 THEN UsrFail(w1, Err("remote", userResp.errcode, userResp.errmsg), cache)
            ELSE IF userResp.openid # ""
                 THEN UsrFail(w1, Err("not an internal user", 0, ""), cache)
            ELSE IF infoResp.net = "fail" THEN UsrFail(w2, Err("transport", 0, ""), cache)
            ELSE IF infoResp.shape = "garbage" THEN UsrFail(w2, Err("decode", 0, ""), cache)
            ELSE IF infoResp.errcode # 0
                 THEN UsrFail(w2, Err("remote", infoResp.errcode, infoResp.errmsg), cache)
            ELSE UsrOk(w2, [ZeroUserInfo EXCEPT
                              !.Id = IF infoResp.userid = "" THEN infoResp.name
                                     ELSE infoResp.userid,
                              !.Username = infoResp.name, !.DisplayName = infoResp.name,
                              !.Email = infoResp.email, !.AvatarUrl = infoResp.avatar],
                       cache)

-----------------------------------------------------------------------------
(***************************************************************************)
(* QQ adapter (qq.go).                                                     *)
(***************************************************************************)
\* qq.go:72-100: matched[0][1] of "token=(.*?)&" is read without a length
\* test, so a body without the field (error document, garbage) panics
QqGetToken(a, code, reply) ==
    IF a.Client = NilClient THEN TokPanic(a, <<>>)
    ELSE LET w == <<Call(a.Client, "graph.qq.com/oauth2.0/token", code)>>
         IN IF reply.net = "fail" THEN TokFail(a, w, Err("transport", 0, ""))
            ELSE IF reply.shape # "data" \/ reply.access_token = "" THEN TokPanic(a, w)
            ELSE TokOk(a, w, Token(reply.access_token, "Bearer", "", NoExtra))

\* qq.go:134-185: rs[1] is the reply of oauth2.0/me, rs[2] of user/get_user_info;
\* a first body without "openid":"..." panics at matched[0][1]
QqGetUserInfo(a, tok, rs, cache) ==
    IF a.Client = NilClient THEN UsrPanic(<<>>, cache)
    ELSE LET c == a.Client
             me == rs[1]
             r == rs[2]
             openId == me.openid
             w1 == <<Call(c, "graph.qq.com/oauth2.0/me", tok.AccessToken)>>
             w2 == w1 \o <<Call(c, "graph.qq.com/user/get_user_info", openId)>>
         IN IF me.net = "fail" THEN UsrFail(w1, Err("transport", 0, ""), cache)
            ELSE IF me.shape # "data" \/ openId = "" THEN UsrPanic(w1, cache)
            ELSE IF r.net = "fail" THEN UsrFail(w2, Err("transport", 0, ""), cache)
            ELSE IF r.shape = "garbage" THEN UsrFail(w2, Err("decode", 0, ""), cache)
            ELSE IF r.errcode # 0 THEN UsrFail(w2, Err("remote", r.errcode, ""), cache)
            ELSE UsrOk(w2, [ZeroUserInfo EXCEPT !.Id = openId, !.Username = r.name,
                                                !.DisplayName = r.name,
                                                !.AvatarUrl = r.avatar],
                       cache)

-----------------------------------------------------------------------------
(***************************************************************************)
(* Weibo adapter (weibo.go).                                               *)
(***************************************************************************)
\* strconv.Atoi with the error dropped: 0 for a string that is not a number
Atoi(str) ==
    IF \E n \in 0..99 : Itoa(n) = str THEN CHOOSE n \in 0..99 : Itoa(n) = str ELSE 0

\* weibo.go:90-128: the reply is decoded and used whatever it says, and the
\* uid of the reply is written into the adapter's Config.Scopes[0]
WeiBoGetToken(a, code, reply) ==
    IF a.Client = NilClient THEN TokPanic(a, <<>>)
    ELSE LET w == <<Call(a.Client, "api.weibo.com/oauth2/access_token", code)>>
         IN IF reply.net = "fail" THEN TokFail(a, w, Err("transport", 0, ""))
            ELSE IF reply.shape = "garbage" THEN TokFail(a, w, Err("decode", 0, ""))
            ELSE TokOk([a EXCEPT !.Config.Scopes0 = reply.uid], w,
                       Token(reply.access_token, "WeiboAccessToken", "", NoExtra))

\* weibo.go:186-222: rs[1] is the reply of users/show.json, rs[2] of
\* account/profile/email.json
WeiBoGetUserInfo(a, tok, rs, cache) ==
    IF a.Client = NilClient THEN UsrPanic(<<>>, cache)
    ELSE LET c == a.Client
             id == Atoi(a.Config.Scopes0)
             weiboUserInfo == rs[1]
             e == rs[2]
             w1 == <<Call(c, "api.weibo.com/2/users/show.json", Itoa(id))>>
             w2 == w1 \o <<Call(c, "api.weibo.com/2/account/profile/email.json",
                                tok.AccessToken)>>
         IN IF weiboUserInfo.net = "fail" THEN UsrFail(w1, Err("transport", 0, ""), cache)
            ELSE IF weiboUserInfo.shape = "garbage"
                 THEN UsrFail(w1, Err("decode", 0, ""), cache)
            ELSE IF e.net = "fail" THEN UsrFail(w2, Err("transport", 0, ""), cache)
            ELSE IF e.shape = "garbage" THEN UsrFail(w2, Err("decode", 0, ""), cache)
            ELSE UsrOk(w2, [ZeroUserInfo EXCEPT
                              !.Id = Itoa(weiboUserInfo.num),
                              !.Username = weiboUserInfo.name,
                              !.DisplayName = weiboUserInfo.name,
                              !.AvatarUrl = weiboUserInfo.avatar,
                              !.Email = e.email],
                       cache)

-----------------------------------------------------------------------------
(***************************************************************************)
(* Bilibili adapter (bilibili.go).                                         *)
(***************************************************************************)
\* bilibili.go:93-128
BilibiliGetToken(a, code, reply) ==
    IF a.Client = NilClient THEN TokPanic(a, <<>>)
    ELSE LET w == <<Call(a.Client, "api.bilibili.com/x/account-oauth2/v1/token", code)>>
         IN IF reply.net = "fail" THEN TokFail(a, w, Err("transport", 0, ""))
            ELSE IF reply.shape = "garbage" THEN TokFail(a, w, Err("decode", 0, ""))
            ELSE IF reply.errcode # 0
                 THEN TokFail(a, w, Err("remote", reply.errcode, reply.errmsg))
            ELSE TokOk(a, w, Token(reply.access_token, "", reply.refresh_token, NoExtra))

\* bilibili.go:152-189
BilibiliGetUserInfo(a, tok, rs, cache) ==
    IF a.Client = NilClient THEN UsrPanic(<<>>, cache)
    ELSE LET w == <<Call(a.Client, "member.bilibili.com/arcopen/fn/user/account/info",
                         tok.AccessToken)>>
             r == rs[1]
         IN IF r.net = "fail" THEN UsrFail(w, Err("transport", 0, ""), cache)
            ELSE IF r.shape = "garbage" THEN UsrFail(w, Err("decode", 0, ""), cache)
            ELSE IF r.errcode # 0
                 THEN UsrFail(w, Err("remote", r.errcode, r.errmsg), cache)
            ELSE UsrOk(w, [ZeroUserInfo EXCEPT !.Id = r.openid, !.Username = r.name,
                                               !.DisplayName = r.name,
                                               !.AvatarUrl = r.avatar],
                       cache)

-----------------------------------------------------------------------------
(***************************************************************************)
(* GitHub adapter (github.go).                                             *)
(***************************************************************************)
\* github.go:82-106: the "error" member of the reply is the only thing tested
GithubGetToken(a, code, reply) ==
    IF a.Client = NilClient THEN TokPanic(a, <<>>)
    ELSE LET w == <<Call(a.Client, "github.com/login/oauth/access_token", code)>>
             Error == IF reply.shape = "error" THEN reply.errmsg ELSE ""
         IN IF reply.net = "fail" THEN TokFail(a, w, Err("transport", 0, ""))
            ELSE IF reply.shape = "garbage" THEN TokFail(a, w, Err("decode", 0, ""))
            ELSE IF Error # "" THEN TokFail(a, w, Err("remote", 0, Error))
            ELSE TokOk(a, w, Token(reply.access_token, "Bearer", "", NoExtra))

\* github.go:164-196
GithubGetUserInfo(a, tok, rs, cache) ==
    IF a.Client = NilClient THEN UsrPanic(<<>>, cache)
    ELSE LET w == <<Call(a.Client, "api.github.com/user", tok.AccessToken)>>
             r == rs[1]
         IN IF r.net = "fail" THEN UsrFail(w, Err("transport", 0, ""), cache)
            ELSE IF r.shape = "garbage" THEN UsrFail(w, Err("decode", 0, ""), cache)
            ELSE UsrOk(w, [ZeroUserInfo EXCEPT !.Id = Itoa(r.num), !.Username = r.userid,
                                               !.DisplayName = r.name, !.Email = r.email,
                                               !.AvatarUrl = r.avatar],
                       cache)

-----------------------------------------------------------------------------
(***************************************************************************)
(* GitLab adapter (gitlab.go).                                             *)
(***************************************************************************)
\* gitlab.go:86-119: the reply is decoded and used whatever it says
GitlabGetToken(a, code, reply) ==
    IF a.Client = NilClient THEN TokPanic(a, <<>>)
    ELSE LET w == <<Call(a.Client, "gitlab.com/oauth/token", code)>>
         IN IF reply.net = "fail" THEN TokFail(a, w, Err("transport", 0, ""))
            ELSE IF reply.shape = "garbage" THEN TokFail(a, w, Err("decode", 0, ""))
            ELSE TokOk(a, w, Token(reply.access_token, reply.token_type,
                                   reply.refresh_token, NoExtra))

\* gitlab.go:175-199
GitlabGetUserInfo(a, tok, rs, cache) ==
    IF a.Client = NilClient THEN UsrPanic(<<>>, cache)
    ELSE LET w == <<Call(a.Client, "gitlab.com/api/v4/user", tok.AccessToken)>>
             guser == rs[1]
         IN IF guser.net = "fail" THEN UsrFail(w, Err("transport", 0, ""), cache)
            ELSE IF guser.shape = "garbage" THEN UsrFail(w, Err("decode", 0, ""), cache)
            ELSE UsrOk(w, [ZeroUserInfo EXCEPT !.Id = Itoa(guser.num),
                                               !.Username = guser.userid,
                                               !.DisplayName = guser.name,
                                               !.AvatarUrl = guser.avatar,
                                               !.Email = guser.email],
                       cache)

-----------------------------------------------------------------------------
(***************************************************************************)
(* Gitee adapter (gitee.go).                                               *)
(***************************************************************************)
\* the process-wide http.DefaultClient
DefaultClient == "http.DefaultClient"

\* gitee.go:90-124: sent through http.DefaultClient, not idp.Client; the
\* reply is decoded and used whatever it says
GiteeGetToken(a, code, reply) ==
    LET w == <<Call(DefaultClient, "gitee.com/oauth/token", code)>>
    IN IF reply.net = "fail" THEN TokFail(a, w, Err("transport", 0, ""))
       ELSE IF reply.shape = "garbage" THEN TokFail(a, w, Err("decode", 0, ""))
       ELSE TokOk(a, w, Token(reply.access_token, reply.token_type,
                              reply.refresh_token, NoExtra))

\* gitee.go:166-191
GiteeGetUserInfo(a, tok, rs, cache) ==
    IF a.Client = NilClient THEN UsrPanic(<<>>, cache)
    ELSE LET w == <<Call(a.Client, "gitee.com/api/v5/user", tok.AccessToken)>>
             gtUserInfo == rs[1]
         IN IF gtUserInfo.net = "fail" THEN UsrFail(w, Err("transport", 0, ""), cache)
            ELSE IF gtUserInfo.shape = "garbage"
                 THEN UsrFail(w, Err("decode", 0, ""), cache)
            ELSE UsrOk(w, [ZeroUserInfo EXCEPT !.Id = Itoa(gtUserInfo.num),
                                               !.Username = gtUserInfo.name,
                                               !.DisplayName = gtUserInfo.name,
                                               !.Email = gtUserInfo.email,
                                               !.AvatarUrl = gtUserInfo.avatar],
                       cache)

-----------------------------------------------------------------------------
(***************************************************************************)
(* Baidu adapter (baidu.go).                                               *)
(***************************************************************************)
\* baidu.go:71-74: oauth2.Config.Exchange through idp.Client; the exchange
\* fails on a reply that carries no access_token
BaiduGetToken(a, code, reply) ==
    IF a.Client = NilClient THEN TokPanic(a, <<>>)
    ELSE LET w == <<Call(a.Client, "openapi.baidu.com/oauth/2.0/token", code)>>
         IN IF reply.net = "fail" THEN TokFail(a, w, Err("transport", 0, ""))
            ELSE IF reply.shape = "garbage" THEN TokFail(a, w, Err("decode", 0, ""))
            ELSE IF reply.access_token = ""
                 THEN TokFail(a, w, Err("oauth2", reply.errcode, reply.errmsg))
            ELSE TokOk(a, w, Token(reply.access_token, reply.token_type,
                                   reply.refresh_token, NoExtra))

\* baidu.go:110-132
BaiduGetUserInfo(a, tok, rs, cache) ==
    IF a.Client = NilClient THEN UsrPanic(<<>>, cache)
    ELSE LET w == <<Call(a.Client, "openapi.baidu.com/rest/2.0/passport/users/getInfo",
                         tok.AccessToken)>>
             baiduUser == rs[1]
         IN IF baiduUser.net = "fail" THEN UsrFail(w, Err("transport", 0, ""), cache)
            ELSE IF baiduUser.shape = "garbage"
                 THEN UsrFail(w, Err("decode", 0, ""), cache)
            ELSE UsrOk(w, [ZeroUserInfo EXCEPT
                             !.Id = baiduUser.openid, !.Username = baiduUser.name,
                             !.DisplayName = baiduUser.name,
                             !.AvatarUrl = "https://himg.bdimg.com/sys/portrait/item/"
                                              \o baiduUser.avatar],
                       cache)

-----------------------------------------------------------------------------
(***************************************************************************)
(* Alipay adapter (README.md:922-1250).                                    *)
(***************************************************************************)
\* README.md:1119-1159: the request is signed with Config.ClientSecret, then
\* posted through idp.Client
AlipayPostWithBody(a, method, arg) ==
    LET sign == rsaSignWithRSA256(<<method, arg>>, a.Config.ClientSecret)
    IN IF sign.status = "panic" THEN [status |-> "panic", wire |-> <<>>]
       ELSE IF sign.status = "err" THEN [status |-> "err", wire |-> <<>>]
       ELSE IF a.Client = NilClient THEN [status |-> "panic", wire |-> <<>>]
       ELSE [status |-> "sent",
             wire |-> <<Call(a.Client, "openapi.alipay.com/gateway.do#" \o method, arg)>>]

\* README.md:1026-1054: the reply is decoded and used whatever it says
AlipayGetToken(a, code, reply) ==
    LET post == AlipayPostWithBody(a, "alipay.system.oauth.token", code)
        w == post.wire
    IN IF post.status = "panic" THEN TokPanic(a, w)
       ELSE IF post.status = "err" THEN TokFail(a, w, Err("sign", 0, ""))
       ELSE IF reply.net = "fail" THEN TokFail(a, w, Err("transport", 0, ""))
       ELSE IF reply.shape = "garbage" THEN TokFail(a, w, Err("decode", 0, ""))
       ELSE TokOk(a, w, Token(reply.access_token, "", "", NoExtra))

\* README.md:1078-1109
AlipayGetUserInfo(a, tok, rs, cache) ==
    LET post == AlipayPostWithBody(a, "alipay.user.info.share", tok.AccessToken)
        w == post.wire
        r == rs[1]
    IN IF post.status = "panic" THEN UsrPanic(w, cache)
       ELSE IF post.status = "err" THEN UsrFail(w, Err("sign", 0, ""), cache)
       ELSE IF r.net = "fail" THEN UsrFail(w, Err("transport", 0, ""), cache)
       ELSE IF r.shape = "garbage" THEN UsrFail(w, Err("decode", 0, ""), cache)
       ELSE UsrOk(w, [ZeroUserInfo EXCEPT !.Id = r.userid, !.Username = r.name,
                                          !.DisplayName = r.name, !.AvatarUrl = r.avatar],
                  cache)

-----------------------------------------------------------------------------
(***************************************************************************)
(* The IdProvider interface (provider.go:66-79): dynamic dispatch on the   *)
(* adapter's type.                                                         *)
(***************************************************************************)
GetToken(a, code, reply) ==
    CASE a.kind = "GitHub" -> GithubGetToken(a, code, reply)
      [] a.kind = "QQ" -> QqGetToken(a, code, reply)
      [] a.kind = "WeChat" -> WeChatGetToken(a, code, reply)
      [] a.kind = "DingTalk" -> DingTalkGetToken(a, code, reply)
      [] a.kind = "Weibo" -> WeiBoGetToken(a, code, reply)
      [] a.kind = "Gitee" -> GiteeGetToken(a, code, reply)
      [] a.kind = "GitLab" -> GitlabGetToken(a, code, reply)
      [] a.kind = "Baidu" -> BaiduGetToken(a, code, reply)
      [] a.kind = "Alipay" -> AlipayGetToken(a, code, reply)
      [] a.kind = "Douyin" -> DouyinGetToken(a, code, reply)
      [] a.kind = "Bilibili" -> BilibiliGetToken(a, code, reply)
      [] a.kind = "WeCom" -> WeComGetToken(a, code, reply)
      [] a.kind = "WeComInternal" -> WeComInternalGetToken(a, code, reply)

GetUserInfo(a, tok, rs, cache) ==
    CASE a.kind = "GitHub" -> GithubGetUserInfo(a, tok, rs, cache)
      [] a.kind = "QQ" -> QqGetUserInfo(a, tok, rs, cache)
      [] a.kind = "WeChat" -> WeChatGetUserInfo(a, tok, rs, cache)
      [] a.kind = "DingTalk" -> DingTalkGetUserInfo(a, tok, rs, cache)
      [] a.kind = "Weibo" -> WeiBoGetUserInfo(a, tok, rs, cache)
      [] a.kind = "Gitee" -> GiteeGetUserInfo(a, tok, rs, cache)
      [] a.kind = "GitLab" -> GitlabGetUserInfo(a, tok, rs, cache)
      [] a.kind = "Baidu" -> BaiduGetUserInfo(a, tok, rs, cache)
      [] a.kind = "Alipay" -> AlipayGetUserInfo(a, tok, rs, cache)
      [] a.kind = "Douyin" -> DouyinGetUserInfo(a, tok, rs, cache)
      [] a.kind = "Bilibili" -> BilibiliGetUserInfo(a, tok, rs, cache)
      [] a.kind = "WeCom" -> WeComGetUserInfo(a, tok, rs, cache)
      [] a.kind = "WeComInternal" -> WeComInternalGetUserInfo(a, tok, rs, cache)

\* the replies the endpoints of the enterprise directory give
DirectoryReplies == {NetFail, Garbage, DomainError, EmptyObject, Member}

\* the replies the directory detail call (topapi/v2/user/get) gives
DetailReplies == DirectoryReplies \cup {MemberBare}

\* the replies the inner-app token endpoint gives
AppTokenReplies == {NetFail, DomainError, EmptyObject, TokenGranted}

\* the replies to the chain of remote calls a GetUserInfo of the kind makes,
\* one per call, in the order of the calls
ReplyChains(kind) ==
    CASE kind = "DingTalk" ->
           {<<r1, r2, r3, r4>> : r1 \in UserReplies, r2 \in AppTokenReplies,
                                 r3 \in DirectoryReplies, r4 \in DetailReplies}
      [] kind \in {"QQ", "Weibo", "WeComInternal"} ->
           {<<r1, r2>> : r1 \in UserReplies, r2 \in UserReplies}
      [] OTHER -> {<<r1>> : r1 \in UserReplies}

-----------------------------------------------------------------------------
(***************************************************************************)
(* Request signing helpers of the Alipay adapter (README.md:1161-1250).    *)
(* A string is the sequence of its characters.                             *)
(***************************************************************************)
\* byte values of the characters that occur in parameter names
ByteOf ==
    [c \in {"&", "1", "=", "a", "b", "c", "g", "i", "n", "s"} |->
       CASE c = "&" -> 38 [] c = "1" -> 49 [] c = "=" -> 61 [] c = "a" -> 97
         [] c = "b" -> 98 [] c = "c" -> 99 [] c = "g" -> 103 [] c = "i" -> 105
         [] c = "n" -> 110 [] c = "s" -> 115]

RECURSIVE StrLess(_, _)
\* x < y on Go strings: bytewise lexicographic order
StrLess(x, y) ==
    IF y = <<>> THEN FALSE
    ELSE IF x = <<>> THEN TRUE
    ELSE IF ByteOf[Head(x)] # ByteOf[Head(y)] THEN ByteOf[Head(x)] < ByteOf[Head(y)]
    ELSE StrLess(Tail(x), Tail(y))

RECURSIVE SortStrings(_)
\* sort.Strings of the keys of a map
SortStrings(S) ==
    IF S = {} THEN <<>>
    ELSE LET least == CHOOSE k \in S : \A o \in S : o = k \/ StrLess(k, o)
         IN <<least>> \o SortStrings(S \ {least})

RECURSIVE TrimLeft(_, _)
TrimLeft(str, c) ==
    IF str # <<>> /\ Head(str) = c THEN TrimLeft(Tail(str), c) ELSE str

RECURSIVE TrimRight(_, _)
TrimRight(str, c) ==
    IF str # <<>> /\ str[Len(str)] = c
    THEN TrimRight(SubSeq(str, 1, Len(str) - 1), c)
    ELSE str

\* strings.Trim(str, c) for a cutset of the one character c
Trim(str, c) == TrimRight(TrimLeft(str, c), c)

\* strings.HasPrefix
HasPrefix(str, prefix) ==
    Len(str) >= Len(prefix) /\ SubSeq(str, 1, Len(prefix)) = prefix

\* strings.HasSuffix
HasSuffix(str, suffix) ==
    Len(str) >= Len(suffix)
        /\ SubSeq(str, Len(str) - Len(suffix) + 1, Len(str)) = suffix

SignKey == <<"s", "i", "g", "n">>

RECURSIVE AppendPairs(_, _, _)
\* README.md:1176-1182  the loop over the sorted keys
AppendPairs(keys, data, str) ==
    IF keys = <<>> THEN str
    ELSE LET k == Head(keys)
         IN IF k = SignKey \/ data[k] = <<>>
            THEN AppendPairs(Tail(keys), data, str)
            ELSE AppendPairs(Tail(keys), data, str \o <<"&">> \o k \o <<"=">> \o data[k])

\* README.md:1169-1185
getStringToSign(data) ==
    Trim(AppendPairs(SortStrings(DOMAIN data), data, <<>>), "&")

PemBegin ==
    <<"-", "-", "-", "-", "-", "B", "E", "G", "I", "N", " ", "P", "R", "I",
      "V", "A", "T", "E", " ", "K", "E", "Y", "-", "-", "-", "-", "-", "\n">>

PemEnd ==
    <<"\n", "-", "-", "-", "-", "-", "E", "N", "D", " ", "P", "R", "I", "V",
      "A", "T", "E", " ", "K", "E", "Y", "-", "-", "-", "-", "-">>

RECURSIVE Wrap64(_, _, _)
\* README.md:1228-1236  the loop that cuts the key into 64-character pieces
Wrap64(key, i, preFmtPrivateKey) ==
    IF i + 64 <= Len(key)
    THEN Wrap64(key, i + 64,
                preFmtPrivateKey \o SubSeq(key, i + 1, i + 64) \o <<"\n">>)
    ELSE preFmtPrivateKey \o SubSeq(key, i + 1, Len(key))

\* the line breaks at the ends are not trimmed
formatPrivateKey_NoTrim(key) ==
    LET trimmed == Wrap64(key, 0, <<>>)
        headed == IF ~HasPrefix(trimmed, PemBegin) THEN PemBegin \o trimmed ELSE trimmed
    IN IF ~HasSuffix(headed, PemEnd) THEN headed \o PemEnd ELSE headed

\* README.md:1226-1250
formatPrivateKey(key) ==
    LET trimmed == Trim(Wrap64(key, 0, <<>>), "\n")
        headed == IF ~HasPrefix(trimmed, PemBegin) THEN PemBegin \o trimmed ELSE trimmed
    IN IF ~HasSuffix(headed, PemEnd) THEN headed \o PemEnd ELSE headed

\* parameter names and values the callers hand to getStringToSign
ParamKeys == {<<"a">>, <<"a", "b">>, <<"b">>, <<"c">>, SignKey}

ParamValues == {<<>>, <<"1">>, <<"2">>, <<"X">>, <<"1", "&">>}

FormDatas == UNION {[S -> ParamValues] : S \in SUBSET ParamKeys}

MaxBodyLen == 130

Base64Chars == <<"M", "i", "/", "9", "+">>

\* a base64 body of n characters, every run of five of them different
Body(n, shift) == [i \in 1..n |-> Base64Chars[((i + shift) % 5) + 1]]

Bodies == {Body(n, shift) : n \in 0..MaxBodyLen, shift \in {0, 2}}

\* the forms postWithBody builds from the request structs of GetToken and
\* GetUserInfo (README.md:1027-1036, 1082-1090): the first key in byte order
\* is the application id, the last one is the version, which is "1.0"; the
\* application id and the code or token between them are the caller's
PostBodies ==
    {d \in [{<<"a">>, <<"a", "b">>, <<"b">>, <<"c">>} -> ParamValues] : d[<<"c">>] = <<"1">>}

\* only the parameters that enter the canonical string are transmitted
postWithBody_Canonical(a, body) ==
    LET sign == rsaSignWithRSA256(getStringToSign(body), a.Config.ClientSecret)
        kept == [k \in {x \in DOMAIN body : body[x] # <<>>} |-> body[k]]
    IN IF sign.status = "panic" THEN [status |-> "panic", wire |-> <<>>]
       ELSE IF sign.status = "err" THEN [status |-> "err", wire |-> <<>>]
       ELSE IF a.Client = NilClient THEN [status |-> "panic", wire |-> <<>>]
       ELSE [status |-> "sent",
             wire |-> <<Call(a.Client, "openapi.alipay.com/gateway.do",
                             MapStore(kept, SignKey, sign.sign))>>]

\* README.md:1119-1159 on the form itself: formData holds every field of the
\* body, the signature of getStringToSign(formData) is set under "sign", and
\* the form is posted through idp.Client
postWithBody(a, body) ==
    LET sign == rsaSignWithRSA256(getStringToSign(body), a.Config.ClientSecret)
    IN IF sign.status = "panic" THEN [status |-> "panic", wire |-> <<>>]
       ELSE IF sign.status = "err" THEN [status |-> "err", wire |-> <<>>]
       ELSE IF a.Client = NilClient THEN [status |-> "panic", wire |-> <<>>]
       ELSE [status |-> "sent",
             wire |-> <<Call(a.Client, "openapi.alipay.com/gateway.do",
                             MapStore(body, SignKey, sign.sign))>>]

\* no signing helper has been called
IdleSigning ==
    /\ formData = <<>>
    /\ stringToSign = <<>>
    /\ keyText = <<>>
    /\ pemText = <<>>
    /\ helperOp = "none"

\* README.md:1143  getStringToSign(formData)
CallGetStringToSign ==
    /\ helperOp = "none"
    /\ stringToSign' = getStringToSign(formData)
    /\ helperOp' = "getStringToSign"
    /\ UNCHANGED <<formData, keyText, pemText, cacheVars, adapterVars,
                   countryVars, callbackVars>>

\* README.md:1038, 1091  data, err := idp.postWithBody(pTokenParams, ...)
CallPostWithBody ==
    /\ helperOp = "none"
    /\ wire' = postWithBody(idp, formData).wire
    /\ helperOp' = "postWithBody"
    /\ UNCHANGED <<idpInfo, idp, idpErr, tokIn, tokOut, usrIn, usrOut, lastOp, lastClient>>
    /\ UNCHANGED <<formData, stringToSign, keyText, pemText, cacheVars,
                   countryVars, callbackVars>>

\* README.md:1196  keyText = formatPrivateKey(keyText)
CallFormatPrivateKey ==
    /\ helperOp = "none"
    /\ pemText' = formatPrivateKey(keyText)
    /\ helperOp' = "formatPrivateKey"
    /\ UNCHANGED <<formData, stringToSign, keyText, cacheVars, adapterVars,
                   countryVars, callbackVars>>

-----------------------------------------------------------------------------
(***************************************************************************)
(* getCountryCode called on its own, for every calling code of the table   *)
(* and for strings the table does not hold.                                *)
(***************************************************************************)
UnlistedCodes == {"", "999999", "086", "+86", "CN", "0"}
StateCodes == DOMAIN countryCodeMap \cup UnlistedCodes
Mobiles == {"", "13800138000", "2025550100"}

\* getCountryCode has not been called
IdleCountry ==
    /\ dialCode = ""
    /\ phone = ""
    /\ countryCode = ""

\* part_001:175  countryCode := getCountryCode(dtUserInfo.StateCode, dtUserInfo.Mobile)
CallGetCountryCode ==
    /\ helperOp = "none"
    /\ countryCode' = getCountryCode(dialCode, phone)
    /\ helperOp' = "getCountryCode"
    /\ UNCHANGED <<dialCode, phone, formData, stringToSign, keyText, pemText,
                   cacheVars, adapterVars, callbackVars>>

-----------------------------------------------------------------------------
(***************************************************************************)
(* The scan-confirmation callback and its signature check (wechat.go:381). *)
(* Strings are sequences of characters; a SHA-1 digest is carried as the   *)
(* term of the text it was computed from (no two texts share a digest).    *)
(***************************************************************************)
\* wechat.go:383-384  sort.Sort(sort.StringSlice{...}): the slice in
\* ascending order, equal strings kept
SortStringSlice(arr) ==
    LET n == Len(arr)
        perms == {q \in [1..n -> 1..n] : \A i, j \in 1..n : i # j => q[i] # q[j]}
        sorted == CHOOSE q \in perms :
                     \A i \in 1..(n - 1) : ~StrLess(arr[q[i + 1]], arr[q[i]])
    IN [i \in 1..n |-> arr[sorted[i]]]

\* wechat.go:391-392  hex.EncodeToString of sha1.Sum([]byte(tmpStr))
Sha1Hex(tmpStr) == [sha1 |-> tmpStr]

\* the three strings concatenated in the order of the arguments, unsorted
VerifyWechatSignature_NoSort(token, nonce, timestamp, signature) ==
    Sha1Hex(token \o timestamp \o nonce) = signature

\* wechat.go:381-394
VerifyWechatSignature(token, nonce, timestamp, signature) ==
    LET tmpArr == SortStringSlice(<<token, timestamp, nonce>>)
        tmpStr == tmpArr[1] \o tmpArr[2] \o tmpArr[3]
        res == Sha1Hex(tmpStr)
    IN res = signature

Secrets == {<<"b">>, <<"a", "b">>}
Nonces == {<<"a">>, <<"c">>, <<"1">>}
Timestamps == {<<"1">>}

\* the signatures a callback with these strings can carry: the digest of the
\* three strings concatenated in any order, and the digest of the empty text
Signatures(token, nonce, timestamp) ==
    {Sha1Hex(x[q[1]] \o x[q[2]] \o x[q[3]]) :
        x \in {<<token, timestamp, nonce>>},
        q \in {p \in [1..3 -> 1..3] : \A i, j \in 1..3 : i # j => p[i] # p[j]}}
    \cup {Sha1Hex(<<>>)}

NoCallback == [ticket |-> "", subject |-> "", nonce |-> <<>>, timestamp |-> <<>>,
               signature |-> Sha1Hex(<<>>)]

\* no callback has been received
IdleCallback ==
    /\ sharedSecret = <<>>
    /\ callback = NoCallback
    /\ accepted = FALSE

\* The handler of the scan-confirmation callback: the signature is checked
\* first, and MarkScanned(t, s) runs only for an accepted callback.
HandleCallback(t, s, nonce, timestamp, signature) ==
    LET verified == VerifyWechatSignature(sharedSecret, nonce, timestamp, signature)
        marks == /\ verified
                 /\ t \in DOMAIN WechatCacheMap
                 /\ ~WechatCacheMap[t].IsScanned
    IN /\ Lock.readers = {} /\ Lock.writer = NoWriter
       /\ callback' = [ticket |-> t, subject |-> s, nonce |-> nonce,
                       timestamp |-> timestamp, signature |-> signature]
       /\ accepted' = verified
       /\ WechatCacheMap' =
             IF marks
             THEN MapStore(WechatCacheMap, t, [IsScanned |-> TRUE, WechatUnionId |-> s])
             ELSE WechatCacheMap
       /\ recorded' = IF marks THEN [recorded EXCEPT ![t] = s] ELSE recorded
       /\ lookedUp' = IF marks THEN [lookedUp EXCEPT ![t] = FALSE] ELSE lookedUp
       /\ successes' = IF marks THEN [successes EXCEPT ![t] = 0] ELSE successes
       /\ UNCHANGED <<Lock, pc, accessToken, mapValue, ok, ret,
                      created, isFirst, startedAfter>>
       /\ UNCHANGED <<sharedSecret, adapterVars, signVars, countryVars>>

-----------------------------------------------------------------------------
(***************************************************************************)
(* A caller that builds an adapter and drives it, one operation at a time. *)
(***************************************************************************)
\* what the operations on an adapter leave alone in the ticket cache
outsideAdapter == <<Lock, pc, accessToken, mapValue, ok, ret, created, recorded,
                    successes, lookedUp, isFirst, startedAfter, helperVars>>

NoTokIn == [code |-> "", reply |-> EmptyObject]

NoUsrIn == [token |-> NoToken, replies |-> <<>>]

\* no adapter has been asked for
IdleAdapter ==
    /\ idpInfo = [Type |-> "", ClientId |-> "", ClientSecret |-> ""]
    /\ idp = NoProvider
    /\ idpErr = ""
    /\ tokIn = NoTokIn
    /\ tokOut = NoTokOut
    /\ usrIn = NoUsrIn
    /\ usrOut = NoUsrOut
    /\ wire = <<>>
    /\ lastOp = "none"
    /\ lastClient = NilClient

\* the cache holds one confirmed ticket
ScannedTicket ==
    /\ WechatCacheMap = MapStore(<<>>, "abc123",
                                 [IsScanned |-> TRUE, WechatUnionId |-> "subjectX"])
    /\ created = {"abc123"}
    /\ recorded = [t \in TicketIds |-> IF t = "abc123" THEN "subjectX" ELSE ""]

EmptyCache ==
    /\ WechatCacheMap = <<>>
    /\ created = {}
    /\ recorded = [t \in TicketIds |-> ""]

InitAdapter ==
    /\ idpInfo \in ProviderInfos
    /\ \/ EmptyCache
       \/ idpInfo.Type = IDP_WECHAT /\ ScannedTicket
    /\ Lock = [readers |-> {}, writer |-> NoWriter]
    /\ pc = [r \in Readers |-> "idle"]
    /\ accessToken = [r \in Readers |-> ""]
    /\ mapValue = [r \in Readers |-> ZeroMapValue]
    /\ ok = [r \in Readers |-> FALSE]
    /\ ret = [r \in Readers |-> NoReturn]
    /\ successes = [t \in TicketIds |-> 0]
    /\ lookedUp = [t \in TicketIds |-> FALSE]
    /\ isFirst = [r \in Readers |-> FALSE]
    /\ startedAfter = [r \in Readers |-> FALSE]
    /\ idp = NoProvider
    /\ idpErr = ""
    /\ tokIn = NoTokIn
    /\ tokOut = NoTokOut
    /\ usrIn = NoUsrIn
    /\ usrOut = NoUsrOut
    /\ wire = <<>>
    /\ lastOp = "none"
    /\ lastClient = NilClient
    /\ IdleSigning
    /\ IdleCountry
    /\ IdleCallback

InitSign ==
    /\ InitCache
    /\ IdleAdapter
    /\ formData \in FormDatas
    /\ stringToSign = <<>>
    /\ keyText = <<>>
    /\ pemText = <<>>
    /\ helperOp = "none"
    /\ IdleCountry
    /\ IdleCallback

InitKey ==
    /\ InitCache
    /\ IdleAdapter
    /\ keyText \in Bodies
    /\ formData = <<>>
    /\ stringToSign = <<>>
    /\ pemText = <<>>
    /\ helperOp = "none"
    /\ IdleCountry
    /\ IdleCallback

\* an Alipay adapter, with or without a client, about to post a form
InitPost ==
    /\ InitCache
    /\ idpInfo \in {i \in ProviderInfos : i.Type = IDP_ALIPAY}
    /\ lastClient \in Clients \cup {NilClient}
    /\ idp = [GetIdProvider(idpInfo).idp EXCEPT !.Client = lastClient]
    /\ idpErr = ""
    /\ tokIn = NoTokIn
    /\ tokOut = NoTokOut
    /\ usrIn = NoUsrIn
    /\ usrOut = NoUsrOut
    /\ wire = <<>>
    /\ lastOp = "none"
    /\ formData \in PostBodies
    /\ stringToSign = <<>>
    /\ keyText = <<>>
    /\ pemText = <<>>
    /\ helperOp = "none"
    /\ IdleCountry
    /\ IdleCallback

InitCountry ==
    /\ InitCache
    /\ IdleAdapter
    /\ IdleSigning
    /\ IdleCallback
    /\ dialCode \in StateCodes
    /\ phone \in Mobiles
    /\ countryCode = ""

InitCallback ==
    /\ InitCache
    /\ IdleAdapter
    /\ IdleSigning
    /\ IdleCountry
    /\ sharedSecret \in Secrets
    /\ callback = NoCallback
    /\ accepted = FALSE

\* provider.go:97-128  idp, err := GetIdProvider(idpInfo, redirectUrl)
CallGetIdProvider ==
    LET out == GetIdProvider(idpInfo)
    IN /\ idp' = out.idp
       /\ idpErr' = out.err
       /\ tokIn' = NoTokIn
       /\ tokOut' = NoTokOut
       /\ usrIn' = NoUsrIn
       /\ usrOut' = NoUsrOut
       /\ wire' = <<>>
       /\ lastOp' = "GetIdProvider"
       /\ lastClient' = NilClient
       /\ UNCHANGED <<idpInfo, WechatCacheMap, outsideAdapter>>

\* idp.Client = client (the same body in every adapter, e.g. github.go:46-48)
SetHttpClient(client) ==
    /\ idp # NoProvider
    /\ idp' = [idp EXCEPT !.Client = client]
    /\ wire' = <<>>
    /\ usrIn' = NoUsrIn
    /\ usrOut' = NoUsrOut
    /\ lastOp' = "SetHttpClient"
    /\ lastClient' = client
    /\ UNCHANGED <<idpInfo, idpErr, tokIn, tokOut, WechatCacheMap, outsideAdapter>>

\* token, err := idp.GetToken(code), the token endpoint answering with reply
CallGetToken(code, reply) ==
    /\ idp # NoProvider
    /\ \E out \in {GetToken(idp, code, reply)} :
          /\ tokIn' = [code |-> code, reply |-> reply]
          /\ tokOut' = [status |-> out.status, err |-> out.err, token |-> out.token]
          /\ idp' = out.idp
          /\ wire' = out.wire
    /\ usrIn' = NoUsrIn
    /\ usrOut' = NoUsrOut
    /\ lastOp' = "GetToken"
    /\ UNCHANGED <<idpInfo, idpErr, lastClient, WechatCacheMap, outsideAdapter>>

\* the tokens a caller hands to GetUserInfo: the one GetToken returned, or
\* one it kept from elsewhere
UserTokens ==
    {Token("AT", "Bearer", "", NoExtra),
     Token(TicketToken("abc123"), "WeChatAccessToken", "", NoExtra)}
        \cup (IF tokOut.status = "ok" THEN {tokOut.token} ELSE {})

\* userInfo, err := idp.GetUserInfo(token), once after another operation;
\* the k-th remote call of the operation is answered with rs[k], and a
\* position the operation does not reach holds EmptyObject
CallGetUserInfo(tok, rs) ==
    /\ idp # NoProvider
    /\ lastOp # "GetUserInfo"
    /\ \E out \in {GetUserInfo(idp, tok, rs, WechatCacheMap)} :
          /\ \A k \in DOMAIN rs : k > Len(out.wire) => rs[k] = EmptyObject
          /\ usrIn' = [token |-> tok, replies |-> rs]
          /\ usrOut' = [status |-> out.status, err |-> out.err,
                        userInfo |-> out.userInfo]
          /\ WechatCacheMap' = out.cache
          /\ wire' = out.wire
    /\ lastOp' = "GetUserInfo"
    /\ UNCHANGED <<idpInfo, idp, idpErr, tokIn, tokOut, lastClient, outsideAdapter>>

Init == InitCache /\ IdleAdapter /\ IdleSigning /\ IdleCountry /\ IdleCallback

Next ==
    \/ \E t \in TicketIds : CreateTicket(t)
    \/ \E t \in TicketIds, s \in SubjectIds : MarkScanned(t, s)
    \/ \E r \in Readers, t \in TicketIds : GetUserInfoCall(r, t)
    \/ \E r \in Readers : GetUserInfoStep(r)

\* The ticket life cycle of the design: create, one scan confirmation, reads.
Spec == Init /\ [][Next]_vars

\* The same life cycle with the scheduling the program has: a GetUserInfo
\* call that has started runs to its return, and pollers keep calling. No
\* scan confirmation is promised: the user may never scan.
SpecLive ==
    /\ Init
    /\ [][Next]_vars
    /\ \A r \in Readers : WF_vars(GetUserInfoStep(r))
    /\ \A r \in Readers : WF_vars(\E t \in TicketIds : GetUserInfoCall(r, t))

NextAnyEntry ==
    \/ \E t \in TicketIds, v \in WechatCacheMapValue : StoreEntry(t, v)
    \/ \E r \in Readers, t \in TicketIds : GetUserInfoCall(r, t)
    \/ \E r \in Readers : GetUserInfoStep(r)

\* The cache filled by arbitrary writers of the exported map.
SpecAnyEntry == Init /\ [][NextAnyEntry]_vars

-----------------------------------------------------------------------------
NextAdapter ==
    \/ CallGetIdProvider
    \/ \E c \in Clients : SetHttpClient(c)
    \/ \E code \in Codes, reply \in TokenReplies : CallGetToken(code, reply)
    \/ \E tok \in UserTokens, rs \in ReplyChains(idp.kind) : CallGetUserInfo(tok, rs)

SpecAdapter == InitAdapter /\ [][NextAdapter]_vars

NextCountry == CallGetCountryCode

\* getCountryCode applied to one calling code and one mobile number.
SpecCountry == InitCountry /\ [][NextCountry]_vars

NextCallback ==
    \/ \E t \in TicketIds : CreateTicket(t)
    \/ \E t \in TicketIds, s \in SubjectIds, n \in Nonces, ts \in Timestamps :
          \E sig \in Signatures(sharedSecret, n, ts) : HandleCallback(t, s, n, ts, sig)

\* The ticket cache written by callbacks whose signature is checked.
SpecCallback == InitCallback /\ [][NextCallback]_vars

NextPost == CallPostWithBody

\* postWithBody applied to one form by one Alipay adapter.
SpecPost == InitPost /\ [][NextPost]_vars

NextSign == CallGetStringToSign

SpecSign == InitSign /\ [][NextSign]_vars

NextKey == CallFormatPrivateKey

SpecKey == InitKey /\ [][NextKey]_vars

(***************************************************************************)
(* Claims on the ticket cache.                                             *)
(***************************************************************************)

\* C1: for a scanned ticket, among any concurrent GetUserInfo calls with the
\* same ticket token at most one returns an identity; the others return
\* "error ticket".
C1_ExactlyOnce == \A t \in TicketIds : successes[t] <= 1

\* C2: once a GetUserInfo call with a ticket token has returned an identity,
\* every call with the same token that starts afterwards returns
\* "error ticket".
C2_ConsumeOnce ==
    \A r \in Readers : (Returned(r) /\ startedAfter[r]) => Failed(r)

C2_Witness ==
    \E r \in Readers : Returned(r) /\ startedAfter[r] /\ Failed(r)

\* C3: after MarkScanned(t, s), the first GetUserInfo to look ticket t up
\* returns an identity, and every identity returned for t has Id = s and
\* Username = DisplayName = "wx_user_"+s, s being the subject id recorded
\* for t and not the one recorded for another ticket.
C3_FirstReadReturnsSubject ==
    \A r \in Readers :
        LET t == Drop10(accessToken[r])
        IN Returned(r) =>
              /\ isFirst[r] => Succeeded(r)
              /\ Succeeded(r) =>
                    /\ ret[r].userInfo.Id = recorded[t]
                    /\ ret[r].userInfo.Username = "wx_user_" \o recorded[t]
                    /\ ret[r].userInfo.DisplayName = "wx_user_" \o recorded[t]

C3_Witness ==
    \E r \in Readers :
        /\ Succeeded(r) /\ isFirst[r]
        /\ ret[r].userInfo.Id = "subjectX"
        /\ ret[r].userInfo.Username = "wx_user_subjectX"
        /\ \E t2 \in TicketIds \ {Drop10(accessToken[r])} : recorded[t2] = "subjectY"

\* C4: GetUserInfo with a ticket token returns "error ticket" whenever the
\* entry it looked up is absent or has IsScanned = FALSE, whatever the
\* entry's WechatUnionId.
C4_UnscannedRejected ==
    \A r \in Readers :
        (Returned(r) /\ (~ok[r] \/ ~mapValue[r].IsScanned)) => Failed(r)

(***************************************************************************)
(* Claims on the provider factory and the adapters.                        *)
(***************************************************************************)

\* C5: GetIdProvider returns an adapter and no error for each of the 13
\* declared kinds (the IDP_* constants, compared case-sensitively), and no
\* adapter and an unsupported-kind error for every other Type string; it
\* sends no remote call and leaves the ProviderInfo as it was.
C5_Factory ==
    /\ [](lastOp = "GetIdProvider" =>
            /\ wire = <<>>
            /\ idpInfo.Type \in DeclaredKinds =>
                  idp # NoProvider /\ idp.kind = idpInfo.Type /\ idpErr = ""
            /\ idpInfo.Type \notin DeclaredKinds =>
                  idp = NoProvider /\ idpErr = "unsupported type: " \o idpInfo.Type)
    /\ [][idpInfo' = idpInfo]_vars

C5_Witness ==
    /\ lastOp = "GetIdProvider"
    /\ idpInfo.Type = IDP_WECOM_INTERNAL
    /\ idp = NewWeComInternalIdProvider(idpInfo.ClientId, idpInfo.ClientSecret)
    /\ idpErr = ""

\* C6: when the token endpoint answers HTTP 200 with a body that carries a
\* domain error code, GetToken of every adapter returns no token but a remote
\* error with that code and message: for {"errcode":40163,"errmsg":"code been
\* used"} the error (40163, "code been used").
C6_TokenDomainError ==
    (lastOp = "GetToken" /\ wire # <<>> /\ tokIn.reply.shape = "error") =>
        /\ tokOut.status = "err"
        /\ tokOut.err = Err("remote", tokIn.reply.errcode, tokIn.reply.errmsg)

\* C7: when one of the user-info endpoints answers HTTP 200 with a body that
\* carries a domain error code, GetUserInfo of every adapter returns no
\* identity but a remote error.
C7_UserInfoDomainError ==
    (/\ lastOp = "GetUserInfo"
     /\ \E k \in 1..Len(wire) : usrIn.replies[k].shape = "error") =>
        /\ usrOut.status = "err"
        /\ usrOut.err.cause = "remote"

\* C8: for every adapter and every remote reply, a GetUserInfo that returns
\* without error returns a UserInfo whose Id is not empty.
C8_IdNonEmpty ==
    (lastOp = "GetUserInfo" /\ usrOut.status = "ok") => usrOut.userInfo.Id # ""

\* C11: when the configured private key cannot be used (no decodable PEM
\* block, not a PKCS#8 key, or not an RSA key), GetToken and GetUserInfo of
\* the signed (Alipay) adapter return an error to the caller: the call does
\* not crash and no request is sent to the remote endpoint.
C11_KeyFailureIsError ==
    (idp.kind = "Alipay" /\ idp.Config.ClientSecret # "rsa-pkcs8") =>
        /\ lastOp = "GetToken" => tokOut.status = "err" /\ wire = <<>>
        /\ lastOp = "GetUserInfo" => usrOut.status = "err" /\ wire = <<>>

\* C13: getCountryCode is total: for every calling code, the empty string
\* and unlisted codes included, it returns a non-empty ISO code; the listed
\* codes 86, 1, 44, 81, 82 give CN, US, GB, JP, KR, an unlisted code gives
\* the default CN, and the result does not depend on the mobile number.
C13_CountryCode ==
    helperOp = "getCountryCode" =>
        /\ countryCode # ""
        /\ dialCode = "86" => countryCode = "CN"
        /\ dialCode = "1" => countryCode = "US"
        /\ dialCode = "44" => countryCode = "GB"
        /\ dialCode = "81" => countryCode = "JP"
        /\ dialCode = "82" => countryCode = "KR"
        /\ dialCode \in UnlistedCodes => countryCode = "CN"
        /\ \A m \in Mobiles : getCountryCode(dialCode, m) = countryCode

C13_Witness ==
    /\ helperOp = "getCountryCode"
    /\ dialCode = "999999"
    /\ phone = "13800138000"
    /\ countryCode = "CN"

\* the remote call failed, or its reply could not be decoded
ReplyFailed(reply) == reply.net = "fail" \/ reply.shape = "garbage"

\* C14: every failure of a remote call, or of decoding its reply, inside
\* GetToken or GetUserInfo makes the operation return an error; no failure
\* is swallowed and replaced by a successful result. In particular DingTalk
\* GetUserInfo returns an error when the inner-app access-token call or the
\* directory detail call fails.
C14_NoFailureSwallowed ==
    /\ (lastOp = "GetToken" /\ Len(wire) >= 1 /\ ReplyFailed(tokIn.reply)) =>
          tokOut.status = "err"
    /\ lastOp = "GetUserInfo" =>
          \A i \in 1..Len(wire) :
             (i \in DOMAIN usrIn.replies /\ ReplyFailed(usrIn.replies[i])) =>
                usrOut.status = "err"

\* the user an access token of the model was granted to
GrantOf(at) == CHOOSE g \in {TokenGranted, TokenGrantedB} : g.access_token = at

\* C15: GetToken and GetUserInfo never modify the adapter or its config, so
\* when two exchange-then-fetch cycles of different users share one adapter,
\* in any interleaving, GetUserInfo called with one user's credential asks
\* the remote for that user's subject id and never for the other user's.
C15_AdapterUnchanged ==
    /\ [][lastOp' \in {"GetToken", "GetUserInfo"} => idp' = idp]_vars
    /\ [](\A g \in {TokenGranted, TokenGrantedB} :
             (/\ lastOp = "GetUserInfo"
              /\ idp.kind = "Weibo"
              /\ Len(wire) >= 1
              /\ usrIn.token.AccessToken \in {TokenGranted.access_token,
                                              TokenGrantedB.access_token}
              /\ GrantOf(usrIn.token.AccessToken) # g)
                => wire[1].arg # g.uid)

\* C16: for every adapter, every remote call made by GetToken or GetUserInfo
\* goes through the transport most recently set with SetHttpClient; no call
\* is sent through another client (a default or a freshly created one).
C16_InjectedTransport ==
    lastOp \in {"GetToken", "GetUserInfo"} =>
        \A i \in 1..Len(wire) : wire[i].via = idp.Client

\* the provider kinds whose GetUserInfo needs a value that only GetToken saw
SideChannelKinds == {"WeChat", "WeCom", "WeComInternal", "Douyin", "Weibo"}

\* that value for the last GetToken: the openid, open_id or uid of the
\* reply, or the confirmation code itself
SideChannelValue ==
    CASE idp.kind \in {"WeChat", "Douyin"} -> tokIn.reply.openid
      [] idp.kind \in {"WeCom", "WeComInternal"} -> tokIn.code
      [] idp.kind = "Weibo" -> tokIn.reply.uid
      [] OTHER -> ""

\* C17: for every provider kind whose fetch needs a side-channel value
\* (WeChat openid, WeCom and WeComInternal confirmation code, Douyin open_id,
\* Weibo uid), the credential of a successful GetToken carries that value in
\* its extras, and GetUserInfo called with that credential sends exactly
\* that value in its request.
C17_SideChannelInExtras ==
    (/\ idp.kind \in SideChannelKinds
     /\ tokOut.status = "ok"
     /\ ~HasTicketPrefix(tokIn.code)) =>
        /\ lastOp = "GetToken" =>
              /\ tokOut.token.Extra.key # ""
              /\ tokOut.token.Extra.val = SideChannelValue
        /\ (lastOp = "GetUserInfo" /\ usrIn.token = tokOut.token /\ Len(wire) >= 1) =>
              wire[1].arg = SideChannelValue

\* the signature the scheme prescribes: the digest of the three strings in
\* ascending order, concatenated
SignedInOrder(k, ts, n, sig) ==
    \E x, y, z \in {k, ts, n} :
        /\ \A w \in {k, ts, n} :
              Cardinality({i \in 1..3 : <<x, y, z>>[i] = w})
                 = Cardinality({i \in 1..3 : <<k, ts, n>>[i] = w})
        /\ ~StrLess(y, x) /\ ~StrLess(z, y)
        /\ sig = Sha1Hex(x \o y \o z)

\* a ticket that was not marked scanned before the step is marked after it
MarksScanned ==
    \E t \in TicketIds :
        /\ t \in DOMAIN WechatCacheMap'
        /\ WechatCacheMap'[t].IsScanned
        /\ ~(t \in DOMAIN WechatCacheMap /\ WechatCacheMap[t].IsScanned)

\* C18: VerifyWechatSignature(token, nonce, timestamp, signature) accepts
\* exactly when signature is the hex SHA-1 digest of token, timestamp and
\* nonce sorted lexicographically and concatenated, and a scan-confirmation
\* callback changes the ticket cache only if that check accepted it: for a
\* mismatching callback no ticket is marked scanned and the cache is unchanged.
C18_CallbackVerified ==
    /\ [](callback # NoCallback =>
             (accepted <=> SignedInOrder(sharedSecret, callback.timestamp,
                                         callback.nonce, callback.signature)))
    /\ [][MarksScanned
             => /\ accepted'
                /\ SignedInOrder(sharedSecret, callback'.timestamp,
                                 callback'.nonce, callback'.signature)
                /\ WechatCacheMap' = MapStore(WechatCacheMap, callback'.ticket,
                                              [IsScanned |-> TRUE,
                                               WechatUnionId |-> callback'.subject])]_vars
    /\ [][(/\ callback' # callback
           /\ ~SignedInOrder(sharedSecret, callback'.timestamp,
                             callback'.nonce, callback'.signature))
             => WechatCacheMap' = WechatCacheMap]_vars

\* an accepted callback whose strings are not in ascending order as given
C18_Witness ==
    /\ accepted
    /\ sharedSecret = <<"b">>
    /\ callback.timestamp = <<"1">>
    /\ callback.nonce = <<"a">>
    /\ callback.signature = Sha1Hex(<<"1", "a", "b">>)
    /\ callback.ticket \in DOMAIN WechatCacheMap
    /\ WechatCacheMap[callback.ticket] =
          [IsScanned |-> TRUE, WechatUnionId |-> callback.subject]

\* C19: every ticket entry put into the cache is eventually removed from it,
\* by the first successful read or by expiry: a ticket that is never scanned,
\* or scanned and never read, does not stay in the cache forever.
C19_EventuallyRemoved ==
    \A t \in TicketIds :
        (t \in DOMAIN WechatCacheMap) ~> (t \notin DOMAIN WechatCacheMap)

\* C20: a reader's lookup-and-remove is one atomic step with respect to the
\* scan-confirmation write: no write to the same ticket id takes effect
\* between the reader's lookup and its removal of the entry, so the entry a
\* reader removes is the entry it looked up (the subject id it returns is
\* the one the removed entry held, and no confirmation written after the
\* lookup is deleted unread).
C20_AtomicLookupAndRemove ==
    [][\A r \in Readers :
          (pc[r] = "lock" /\ pc'[r] = "unlock") =>
              /\ Drop10(accessToken[r]) \in DOMAIN WechatCacheMap
              /\ WechatCacheMap[Drop10(accessToken[r])] = mapValue[r]]_vars

\* the call holds the cache lock, in read or in write mode
HoldsLock(r) == r \in Lock.readers \/ Lock.writer = r

\* C21: in the ticket path of GetUserInfo the cache lock is held only around
\* one map lookup or one map delete and no network call is made; the lock is
\* released on every path, the "error ticket" return included, so a call
\* that has returned never holds the lock and never blocks later readers or
\* the scan-confirmation writer.
C21_LockDiscipline ==
    /\ [](\A r \in Readers :
             /\ (r \in Lock.readers) <=> (pc[r] = "runlock")
             /\ (Lock.writer = r) <=> (pc[r] = "unlock")
             /\ pc[r] \in {"idle", "done"} => ~HoldsLock(r)
             /\ HoldsLock(r) => wire = <<>>)
    /\ [](Lock.writer # NoWriter => Lock.readers = {})
    /\ [][\A r \in Readers :
             (HoldsLock(r) /\ HoldsLock(r)') =>
                 /\ WechatCacheMap' = WechatCacheMap
                 /\ mapValue'[r] = mapValue[r]
                 /\ ok'[r] = ok[r]]_vars

\* a call has returned "error ticket" for an entry that is in the cache, and
\* the lock is free
C21_Witness ==
    \E r \in Readers :
        /\ Failed(r)
        /\ Drop10(accessToken[r]) \in DOMAIN WechatCacheMap
        /\ Lock.readers = {}
        /\ Lock.writer = NoWriter

\* the state of ticket t in the life cycle, read off the cache map m
Phase(t, m) ==
    IF t \in DOMAIN m THEN (IF m[t].IsScanned THEN "SCANNED" ELSE "CREATED")
    ELSE IF t \in created THEN "CONSUMED"
    ELSE "NONE"

\* the cache moves every ticket along NONE -> CREATED -> SCANNED -> CONSUMED,
\* and the subject id of a scanned ticket is not rewritten
LifeCycleSteps ==
    \A t \in TicketIds :
        LET before == Phase(t, WechatCacheMap)
            after == IF t \in DOMAIN WechatCacheMap'
                     THEN (IF WechatCacheMap'[t].IsScanned THEN "SCANNED" ELSE "CREATED")
                     ELSE IF t \in created' THEN "CONSUMED" ELSE "NONE"
        IN \/ /\ after = before
              /\ before = "SCANNED" => WechatCacheMap'[t] = WechatCacheMap[t]
           \/ before = "NONE" /\ after = "CREATED"
           \/ before = "CREATED" /\ after = "SCANNED"
           \/ before = "SCANNED" /\ after = "CONSUMED"

\* every consuming read (the delete of GetUserInfo) takes a SCANNED ticket
ConsumingReads ==
    \A r \in Readers :
        (pc[r] = "lock" /\ pc'[r] = "unlock") =>
            Phase(Drop10(accessToken[r]), WechatCacheMap) = "SCANNED"

\* C22: a ticket only moves CREATED -> SCANNED -> CONSUMED (or to EXPIRED):
\* it is scanned at most once, an unscanned ticket is never consumed, and
\* CONSUMED is terminal, so a ticket is mutated exactly twice, once by the
\* scan confirmation and once by the consuming read.
C22_LifeCycle == [][LifeCycleSteps /\ ConsumingReads]_vars

\* the positions, in the chain of calls of a GetUserInfo, of the calls that
\* resolve what a later call needs
ResolvingCalls(kind) ==
    CASE kind = "WeComInternal" -> {1}
      [] kind = "QQ" -> {1}
      [] kind = "DingTalk" -> {2, 3}
      [] OTHER -> {}

\* the call failed, could not be decoded, or answered with a domain error
Refused(kind, reply) ==
    \/ ReplyFailed(reply)
    \/ reply.shape = "error"
    \/ reply.errcode # 0
    \/ kind = "WeComInternal" /\ reply.openid # ""

\* C23: in a GetUserInfo with a dependent call chain (WeComInternal:
\* getuserinfo then user/get; DingTalk: app token, getbyunionid, user/get;
\* QQ: me then get_user_info) each later call carries the id the previous
\* call returned, and when a resolving call fails, returns a domain error or
\* (WeComInternal) reports a non-empty OpenId, no later call is issued and an
\* error is returned.
C23_DependentChain ==
    (lastOp = "GetUserInfo" /\ idp.kind \in {"WeComInternal", "QQ", "DingTalk"}) =>
        /\ \A i \in ResolvingCalls(idp.kind) :
              (i <= Len(wire) /\ Refused(idp.kind, usrIn.replies[i])) =>
                  /\ Len(wire) = i
                  /\ usrOut.status = "err"
        /\ (idp.kind = "WeComInternal" /\ Len(wire) >= 2) =>
              wire[2].arg = usrIn.replies[1].userid
        /\ (idp.kind = "QQ" /\ Len(wire) >= 2) =>
              wire[2].arg = usrIn.replies[1].openid
        /\ (idp.kind = "DingTalk" /\ Len(wire) >= 3) =>
              wire[3].arg = usrIn.replies[1].unionid
        /\ (idp.kind = "DingTalk" /\ Len(wire) >= 4) =>
              wire[4].arg = usrIn.replies[3].userid

\* the value taken from the directory when it is non-empty, from the public
\* profile otherwise
Merged(directory, public) == IF directory # "" THEN directory ELSE public

\* C24: in the identity DingTalk GetUserInfo returns, phone and email are
\* the directory value when it is non-empty and the public-profile value
\* when it is empty, username likewise takes the directory job number when
\* non-empty; an empty directory value never erases a public value, and id,
\* unionId, displayName, avatar and countryCode keep their public value.
C24_FieldMerge ==
    (lastOp = "GetUserInfo" /\ idp.kind = "DingTalk" /\ usrOut.status = "ok") =>
        LET public == usrIn.replies[1]
            directory == usrIn.replies[4]
            u == usrOut.userInfo
        IN /\ u.Phone = Merged(directory.mobile, public.mobile)
           /\ u.Email = Merged(directory.email, public.email)
           /\ u.Username = Merged(directory.job, public.name)
           /\ u.Id = public.openid
           /\ u.UnionId = public.unionid
           /\ u.DisplayName = public.name
           /\ u.AvatarUrl = public.avatar
           /\ public.stateCode = "86" => u.CountryCode = "CN"
           /\ public.stateCode = "" => u.CountryCode = "CN"

\* the directory has a phone, an email and a job number that differ from the
\* public ones
C24_Witness ==
    /\ lastOp = "GetUserInfo"
    /\ idp.kind = "DingTalk"
    /\ usrOut.status = "ok"
    /\ usrIn.replies[1] = ProfileUnion
    /\ usrIn.replies[4] = Member
    /\ usrOut.userInfo.Phone = "138"
    /\ usrOut.userInfo.Email = "corp@example.com"
    /\ usrOut.userInfo.Username = "J007"
    /\ usrOut.userInfo.Id = "openid1"

\* C25: for the adapters whose remote profile can carry a cross-application
\* id (WeChat unionid, DingTalk unionId), the Id of the returned identity is
\* that id whenever the reply holds a non-empty one, and the
\* application-scoped id (openid) only when it does not.
C25_IdentifierSelection ==
    (/\ lastOp = "GetUserInfo"
     /\ idp.kind \in {"WeChat", "DingTalk"}
     /\ usrOut.status = "ok"
     /\ Len(wire) >= 1) =>
        LET profile == usrIn.replies[1]
        IN usrOut.userInfo.Id =
              IF profile.unionid # "" THEN profile.unionid ELSE profile.openid

\* the result of GetUserInfo as the caller sees it
ResultOf(out) == [status |-> out.status, err |-> out.err, userInfo |-> out.userInfo]

\* C27: ticket tokens and ordinary bearer tokens are two disjoint spaces.
\* GetToken on an artifact with the "wechat_oa:" prefix makes no remote call
\* and returns a credential whose access token is the artifact; GetUserInfo on
\* a prefixed credential makes no remote call; GetToken, and GetUserInfo on a
\* credential without the prefix, neither remove a cache entry nor depend on
\* what the cache holds.
C27_DisjointSpaces ==
    /\ []((/\ lastOp = "GetToken"
            /\ idp.kind = "WeChat"
            /\ HasTicketPrefix(tokIn.code)) =>
               (/\ wire = <<>>
                /\ tokOut.status = "ok"
                /\ tokOut.token.AccessToken = tokIn.code))
    /\ []((/\ lastOp = "GetUserInfo"
            /\ idp.kind = "WeChat"
            /\ HasTicketPrefix(usrIn.token.AccessToken)) => wire = <<>>)
    /\ [][(idp.kind = "WeChat" /\ lastOp' = "GetToken") =>
              WechatCacheMap' = WechatCacheMap]_vars
    /\ [][(/\ idp.kind = "WeChat"
           /\ lastOp # "GetUserInfo"
           /\ lastOp' = "GetUserInfo"
           /\ ~HasTicketPrefix(usrIn'.token.AccessToken)) =>
              /\ WechatCacheMap' = WechatCacheMap
              /\ usrOut' = ResultOf(GetUserInfo(idp, usrIn'.token, usrIn'.replies, <<>>))]_vars

\* a ticket token was handed out without a remote call, and a later
\* GetUserInfo with an ordinary token went to the endpoint while the cache
\* held a scanned ticket
C27_Witness ==
    /\ lastOp = "GetUserInfo"
    /\ idp.kind = "WeChat"
    /\ HasTicketPrefix(tokIn.code)
    /\ tokOut.status = "ok"
    /\ tokOut.token.AccessToken = tokIn.code
    /\ ~HasTicketPrefix(usrIn.token.AccessToken)
    /\ Len(wire) = 1
    /\ WechatCacheMap # <<>>

\* a body that is not of the shape the adapter expects: not the expected
\* encoding at all, or, for QQ, a body without the field the pattern looks for
Misshapen(kind, reply, field) ==
    /\ reply.net = "ok"
    /\ \/ reply.shape = "garbage"
       \/ kind = "QQ" /\ field = ""

\* C28: for every adapter, a reply body that does not match the expected
\* shape makes GetToken or GetUserInfo return an error value (a decode error
\* for a body that cannot be decoded) and never abort the caller; in
\* particular QQ GetToken on a body without "token=...&" and QQ GetUserInfo
\* on a body without "openid" return an error.
C28_DecodeError ==
    /\ (/\ lastOp = "GetToken"
        /\ Len(wire) >= 1
        /\ Misshapen(idp.kind, tokIn.reply, tokIn.reply.access_token)) =>
           (/\ tokOut.status = "err"
            /\ tokIn.reply.shape = "garbage" => tokOut.err.cause = "decode")
    /\ (/\ lastOp = "GetUserInfo"
        /\ Len(wire) = 1
        /\ Misshapen(idp.kind, usrIn.replies[1], usrIn.replies[1].openid)) =>
           (/\ usrOut.status = "err"
            /\ usrIn.replies[1].shape = "garbage" => usrOut.err.cause = "decode")

\* the same for the adapters other than QQ
C28_DecodeErrorOthers == idp.kind # "QQ" => C28_DecodeError

RECURSIVE JoinPairs(_, _)
\* key=value of each key of the sequence, '&' between consecutive pairs
JoinPairs(keys, data) ==
    IF keys = <<>> THEN <<>>
    ELSE IF Len(keys) = 1 THEN Head(keys) \o <<"=">> \o data[Head(keys)]
    ELSE Head(keys) \o <<"=">> \o data[Head(keys)] \o <<"&">> \o JoinPairs(Tail(keys), data)

\* the canonical string: "sign" and empty-valued keys dropped, the other keys
\* in byte order, joined as key=value with '&'
CanonicalString(data) ==
    LET kept == {k \in DOMAIN data : k # SignKey /\ data[k] # <<>>}
    IN JoinPairs(SortStrings(kept), data)

\* C9: for every parameter set getStringToSign returns exactly the canonical
\* string: the key "sign" and the keys with an empty value dropped, the
\* remaining keys sorted by byte value and joined as key=value with a single
\* '&' between pairs, nothing before the first or after the last pair, every
\* kept value unchanged.
C9_CanonicalString ==
    helperOp = "getStringToSign" => stringToSign = CanonicalString(formData)

\* the lines of a text: the pieces between its line breaks
SplitLines(text) ==
    LET breaks == {0, Len(text) + 1} \cup {i \in 1..Len(text) : text[i] = "\n"}
        nth(k) == CHOOSE x \in breaks : Cardinality({y \in breaks : y < x}) = k - 1
    IN [k \in 1..Cardinality(breaks) - 1 |-> SubSeq(text, nth(k) + 1, nth(k + 1) - 1)]

RECURSIVE Concat(_)
Concat(lines) == IF lines = <<>> THEN <<>> ELSE Head(lines) \o Concat(Tail(lines))

HeaderLine == SubSeq(PemBegin, 1, Len(PemBegin) - 1)

FooterLine == SubSeq(PemEnd, 2, Len(PemEnd))

\* C10: for a bare base64 body of n >= 1 characters formatPrivateKey returns
\* the header line, then the body in consecutive lines of exactly 64
\* characters, the last line holding the remaining 1..64 characters and no
\* line being empty even when n is a multiple of 64, then the footer line;
\* the body characters are unchanged and in order, and header and footer
\* occur exactly once.
C10_PemEnvelope ==
    (helperOp = "formatPrivateKey" /\ Len(keyText) >= 1) =>
        LET lines == SplitLines(pemText)
            n == Len(lines)
            body == SubSeq(lines, 2, n - 1)
        IN /\ n >= 3
           /\ lines[1] = HeaderLine
           /\ lines[n] = FooterLine
           /\ \A i \in 1..Len(body) - 1 : Len(body[i]) = 64
           /\ Len(body[Len(body)]) \in 1..64
           /\ Concat(body) = keyText
           /\ Cardinality({i \in 1..n : lines[i] = HeaderLine}) = 1
           /\ Cardinality({i \in 1..n : lines[i] = FooterLine}) = 1

C10_Witness ==
    /\ helperOp = "formatPrivateKey"
    /\ Len(keyText) = 128
    /\ Len(SplitLines(pemText)) = 4
    /\ pemText = PemBegin \o SubSeq(keyText, 1, 64) \o <<"\n">>
                     \o SubSeq(keyText, 65, 128) \o PemEnd

\* C26: the request the signed adapter transmits holds every original
\* parameter with its value unchanged, the parameters canonicalization drops
\* (empty values) included, and exactly one added "sign" parameter, whose
\* value is the signature of the canonical string of the parameters before
\* "sign" was added.
C26_SignedRequest ==
    (helperOp = "postWithBody" /\ wire # <<>>) =>
        LET sent == wire[1].arg
        IN /\ DOMAIN sent = DOMAIN formData \cup {SignKey}
           /\ \A k \in DOMAIN formData : sent[k] = formData[k]
           /\ sent[SignKey] =
                 rsaSignWithRSA256(CanonicalString(formData), idp.Config.ClientSecret).sign

\* a form with an empty-valued parameter and a value that ends in '&' was sent
C26_Witness ==
    /\ helperOp = "postWithBody"
    /\ Len(wire) = 1
    /\ formData[<<"a">>] = <<>>
    /\ formData[<<"b">>] = <<"1", "&">>
    /\ wire[1].arg[<<"a">>] = <<>>
    /\ wire[1].arg[SignKey] # <<>>


====
